---- MODULE Spec2Model ----
(***************************************************************************)
(* A model of the microcloud control loop: the simulation engine           *)
(* (cmd/sim-engine), the signal service's detector, the agent service's    *)
(* decider and the orchestrator's action server.                           *)
(*                                                                         *)
(* Units.  Every real-valued metric (cpu, memory, disk and error           *)
(* percentages, requests per second, latencies in ms) and the speed        *)
(* multiplier is held in tenths, so 0.1 is 1 and 100% is 1000.  Wall time  *)
(* is in whole seconds, simulated time in milliseconds.                    *)
(***************************************************************************)
EXTENDS Integers, Sequences, FiniteSets, TLC

VARIABLES
    \* ---- sim-engine: engine.State (state.go:13-25)
    nodes,          \* s.nodes: node id -> [cpu, mem, disk, status, running]
    services,       \* s.services: service id -> [rps, err, p50, p99, health, replicas, desired]
    tickID,         \* s.tickID
    simTimeUnixMs,  \* s.simTimeUnixMs, relative to the construction time
    speedMult,      \* s.speedMult, in tenths
    simState,       \* s.simState
    scenario,       \* s.scenario
    \* ---- sim-engine: the goroutine of Engine.Run (engine.go:42-70)
    runPc,          \* "timer" | "checked" | "ticked" | "snapped"
    snapshot,       \* the MetricSnapshot Run holds between Snapshot() and the publish
    \* ---- the bus subjects the engine publishes on
    simMetrics,     \* sim.metrics: [count, last, prevTick]
    simEvents,      \* sim.events: [count, last]; an event is [target, eventType]
    ctlResp,        \* what the call handled in the last step (a SimulationControl RPC or
                    \* ApplyCommand) returned
    \* ---- signal-service: detector.Detector (rules.go:119-128)
    windows,          \* d.windows: key -> sequence of [value, ts]
    activeIncidents,  \* d.activeIncidents: the keys whose latch is set
    detNow,           \* the wall clock read by time.Now(), in seconds
    detSamples,       \* snapshots processed so far
    opsIncidents,     \* ops.incidents: the incidents published, in order
    evalLog,          \* history: key -> the evaluation made by the last ProcessSnapshot
    openIncidents,    \* history: key -> incidents emitted since the latch was last cleared
    inBand,           \* history: key -> every evaluation so far had its ratio in [0.3, 0.7]
    metricsRepo,      \* the metrics table: the rows stored, as <<tick, entity, metric>>
    detResult,        \* what the last ProcessSnapshot returned
    \* ---- agent-service: decider.Decider (decider.go:17-26) and its repositories
    recentActions,    \* d.recentActions: actionKey -> time of the last proposal
    agentNow,         \* the wall clock read by time.Now(), in seconds
    agentState,       \* "up", or "crashed" after a panic in the handler
    agentDeliveries,  \* incidents delivered so far
    deciderResult,    \* what the last ProcessIncident returned
    agentLast,        \* history: the arguments of the last ProcessIncident call
    nextActionId,     \* the next fresh action id (randomUUID)
    incidentsRepo,    \* incidents table: the ids stored
    actionsRepo,      \* actions table: id -> row
    opsActions,       \* ops.actions: the actions published, each with its publish time
    \* ---- orchestrator: server.ActionServer (part_007:17-24)
    opsCommands,      \* ops.commands: the commands published, in order
    orchResp,         \* the response of the ActionService RPC handled in the last step
    approvals,        \* ApproveAction calls served concurrently: call -> [pc, id, read, code]
    \* ---- orchestrator: server.StreamHub (stream.go:18-28)
    hubLatest,        \* latestSnapshot, latestIncident, latestAction
    hubPending,       \* kind -> the message its handler has cached and not yet broadcast
    hubClients,       \* client -> [pc, ch, written, flushed, seen]
    hubSerial,        \* the serial number of the last message the bus delivered
    \* ---- pkg/bus: one durable consumer of bus.Subscriber
    busStream,        \* the bytes published on the subject, in order
    busPending,       \* the messages the consumer has not acked
    busAcked,         \* the messages the consumer has acked
    busLog            \* history: the deliveries, each with its verdict

engineVars == <<nodes, services, tickID, simTimeUnixMs, speedMult, simState,
                scenario, runPc, snapshot, simMetrics, simEvents, ctlResp>>

detectorVars == <<windows, activeIncidents, detNow, detSamples, opsIncidents,
                  evalLog, openIncidents, inBand, metricsRepo, detResult>>

agentVars == <<recentActions, agentNow, agentState, agentDeliveries, deciderResult, agentLast,
               nextActionId,
               incidentsRepo, opsActions>>

storeVars == <<actionsRepo>>

orchVars == <<opsCommands, orchResp>>

hubVars == <<hubLatest, hubPending, hubClients, hubSerial>>

busVars == <<busStream, busPending, busAcked, busLog>>

callVars == <<approvals>>

vars == <<engineVars, detectorVars, agentVars, storeVars, orchVars, hubVars, busVars,
          callVars>>

(***************************************************************************)
(* Bounds of the model.                                                    *)
(***************************************************************************)
MaxTick == 2        \* ticks the engine loop executes
MaxDrainTick == 18  \* ticks of the Run loop explored around a drain
MaxCommands == 1    \* ApplyCommand calls explored
MaxSamples == 6     \* snapshots the detector processes
MaxDeliveries == 2  \* incidents delivered to the decider
MaxApprovals == 2   \* commands published by ApproveAction
MaxHubMessages == 2 \* bus messages the stream hub handles
MaxFrames == 1      \* frames the loop of ServeHTTP writes to one client
MaxBusMessages == 2 \* messages published to the consumer
MaxBusDeliveries == 4  \* deliveries the consumer handles

NodeIds == {"n1"}
ServiceIds == {"s1", "s2"}
UnknownId == "zz"
TargetIds == NodeIds \cup ServiceIds \cup {UnknownId}

None == "none"

(***************************************************************************)
(* sim-engine: state.go                                                    *)
(***************************************************************************)
clamp(v, min, max) == IF v < min THEN min ELSE IF v > max THEN max ELSE v

\* randDelta(maxDelta) is uniform in [-maxDelta, maxDelta); the model draws
\* the lowest value, zero and the highest value a tenth can hold.
randDelta(dir, maxDelta) ==
    IF dir = -1 THEN -maxDelta ELSE IF dir = 1 THEN maxDelta - 1 ELSE 0

\* The random draws of one tick.  Every rand call of updateNodes and
\* updateServices is independent; the model explores the ticks in which all
\* entities draw alike: one direction for the cpu, memory, disk, rps, error
\* rate and p50 walks, one for the p99 walk, the high_load overlay's
\* rand.Float64()*10 in [0, 10), and the set of services for which the
\* cascade overlay's rand.Float64() < 0.05 holds.
TickDraws ==
    {[dir |-> d[1], dir99 |-> d[2], load |-> l, cascade |-> c] :
        d \in {<<-1, -1>>, <<1, 1>>, <<1, -1>>}, l \in {0, 99},
        c \in {{}, {"s1"}}}

nodeStatus(cpu, mem) ==
    IF cpu > 900 \/ mem > 950 THEN "DEGRADED"
    ELSE IF cpu > 800 \/ mem > 850 THEN "DEGRADED"
    ELSE "HEALTHY"

\* (variant: the status of an OFFLINE node is left alone)
updateNodeKeepOffline(n, draw, scen) ==
    LET cpu  == clamp(n.cpu + randDelta(draw.dir, 50), 0, 1000)
        mem  == clamp(n.mem + randDelta(draw.dir, 20), 0, 1000)
        disk == clamp(n.disk + randDelta(draw.dir, 5), 0, 1000)
    IN  [n EXCEPT !.cpu = IF scen = "high_load"
                          THEN clamp(cpu + draw.load, 0, 1000) ELSE cpu,
                  !.mem = mem,
                  !.disk = disk,
                  !.status = IF n.status = "OFFLINE" THEN "OFFLINE"
                             ELSE nodeStatus(cpu, mem)]

\* One iteration of updateNodes' loop.
updateNode(n, draw, scen) ==
    LET cpu  == clamp(n.cpu + randDelta(draw.dir, 50), 0, 1000)
        mem  == clamp(n.mem + randDelta(draw.dir, 20), 0, 1000)
        disk == clamp(n.disk + randDelta(draw.dir, 5), 0, 1000)
    IN  [n EXCEPT !.cpu = IF scen = "high_load"
                          THEN clamp(cpu + draw.load, 0, 1000) ELSE cpu,
                  !.mem = mem,
                  !.disk = disk,
                  !.status = nodeStatus(cpu, mem)]

serviceHealth(err) ==
    IF err > 100 THEN "CRITICAL" ELSE IF err > 50 THEN "DEGRADED" ELSE "HEALTHY"

\* The clamp of the p99 walk: never below the p50 just computed.
clampP99(v, p50) == clamp(v, p50, 50000)

\* One iteration of updateServices' loop.
updateService(s, draw, hit, scen) ==
    LET rps == clamp(s.rps + randDelta(draw.dir, 500), 0, 100000)
        err == clamp(s.err + randDelta(draw.dir, 5), 0, 1000)
        p50 == clamp(s.p50 + randDelta(draw.dir, 20), 10, 10000)
        p99 == clampP99(s.p99 + randDelta(draw.dir99, 100), p50)
    IN  [s EXCEPT !.rps = rps,
                  !.err = IF scen = "cascade_failure" /\ hit
                          THEN clamp(err + 200, 0, 1000) ELSE err,
                  !.p50 = p50,
                  !.p99 = p99,
                  !.health = serviceHealth(err)]

\* NewState: the ranges initializeDefaultState draws from are cpu [0,30),
\* memory [0,40), disk [0,20), running services 1..3, rps [0,500), error
\* rate [0,0.5), p50 [5,15), p99 [20,70), replicas 1..3, desired 3.
InitNodes ==
    {[cpu |-> 20, mem |-> 395, disk |-> 3, status |-> "HEALTHY", running |-> 2]}

InitServices ==
    {[rps |-> 400, err |-> 2, p50 |-> 50, p99 |-> 200, health |-> "HEALTHY",
      replicas |-> 1, desired |-> 3],
     [rps |-> 4999, err |-> 4, p50 |-> 149, p99 |-> 205, health |-> "HEALTHY",
      replicas |-> 2, desired |-> 3]}

NoSnapshot == [tick |-> -1, simTime |-> -1, nodes |-> <<>>, services |-> <<>>]
NoResponse == [method |-> None]
NoEvent == [target |-> None, eventType |-> None]

NewState ==
    /\ nodes \in [NodeIds -> InitNodes]
    /\ services \in {f \in [ServiceIds -> InitServices] : f["s1"] # f["s2"]}
    /\ tickID = 0
    /\ simTimeUnixMs = 0
    /\ speedMult = 10
    /\ simState = "STOPPED"
    /\ scenario = "normal"

InitEngine ==
    /\ NewState
    /\ runPc = "timer"
    /\ snapshot = NoSnapshot
    /\ simMetrics = [count |-> 0, last |-> NoSnapshot, prevTick |-> -1]
    /\ simEvents = [count |-> 0, last |-> NoEvent]
    /\ ctlResp = NoResponse

SimStates == {"RUNNING", "PAUSED", "STOPPED"}

SetSimState(state) == simState' = state

\* The float64 not-a-number, which a SetSpeedRequest can carry; every other
\* value of a float variable is a number of tenths.
NaN == -7777

\* The comparisons of float64: false when an operand is not a number.
fless(a, b) == a # NaN /\ b # NaN /\ a < b

\* if mult < 0.1 { mult = 0.1 }; if mult > 10.0 { mult = 10.0 }; s.speedMult = mult
SetSpeedMultiplier(mult) ==
    speedMult' = (IF fless(mult, 1) THEN 1 ELSE IF fless(100, mult) THEN 100 ELSE mult)

SetScenario(name) == scenario' = name

\* The integers of the model are 32 bits wide: MinInt stands for the most
\* negative int64, and sums of simulated time wrap at the model's width.
MinInt == -536870912

wrapInt(x) == ((x - MinInt) % (2 * (-MinInt))) + MinInt

\* int64(float64(100) * speedMult).  The conversion of a float64 that int64
\* cannot represent is implementation-dependent: the most negative int64 on
\* amd64, 0 on arm64.
simTimeAdvance(mult) == IF mult = NaN THEN {0, MinInt} ELSE {(100 * mult) \div 10}

\* A Tick that restarts the tick count when the run state is not RUNNING.
TickRestarting(draw) ==
    /\ tickID' = IF simState = "RUNNING" THEN tickID + 1 ELSE 0
    /\ \E adv \in simTimeAdvance(speedMult) : simTimeUnixMs' = wrapInt(simTimeUnixMs + adv)
    /\ nodes' = [n \in NodeIds |-> updateNode(nodes[n], draw, scenario)]
    /\ services' = [s \in ServiceIds |->
                        updateService(services[s], draw, s \in draw.cascade, scenario)]

\* State.Tick, with DefaultTickInterval = 100 ms:
\* simTimeUnixMs += int64(float64(100) * speedMult).
Tick(draw) ==
    /\ tickID' = tickID + 1
    /\ \E adv \in simTimeAdvance(speedMult) : simTimeUnixMs' = wrapInt(simTimeUnixMs + adv)
    /\ nodes' = [n \in NodeIds |-> updateNode(nodes[n], draw, scenario)]
    /\ services' = [s \in ServiceIds |->
                        updateService(services[s], draw, s \in draw.cascade, scenario)]

\* State.Snapshot copies the timestamp and collects POINTERS to the live
\* Node and Service structs; their fields are read when the message is
\* marshalled.  takeSnapshot is the message as it reads right after the call.
takeSnapshot ==
    [tick |-> tickID, simTime |-> simTimeUnixMs, nodes |-> nodes,
     services |-> services]

(***************************************************************************)
(* sim-engine: Engine.Run, one step per lock acquisition                   *)
(***************************************************************************)
\* case <-ticker.C: the run-state check; not RUNNING means `continue`.
RunTimer ==
    /\ runPc = "timer"
    /\ runPc' = IF simState = "RUNNING" THEN "checked" ELSE "timer"
    /\ ctlResp' = NoResponse
    /\ UNCHANGED <<nodes, services, tickID, simTimeUnixMs, speedMult, simState,
                   scenario, snapshot, simMetrics, simEvents>>

\* The tick of one iteration of the Run loop, explored up to tick `last`.
RunTickUntil(draws, last) ==
    /\ runPc = "checked"
    /\ tickID < last
    /\ \E draw \in draws :
          \* draws the code does not make are held at one value
          /\ Tick([draw EXCEPT
                     !.load = IF scenario = "high_load" THEN @ ELSE 0,
                     !.cascade = IF scenario = "cascade_failure" THEN @ ELSE {}])
    /\ runPc' = "ticked"
    /\ ctlResp' = NoResponse
    /\ UNCHANGED <<speedMult, simState, scenario, snapshot, simMetrics, simEvents>>

RunTick(draws) == RunTickUntil(draws, MaxTick)

RunSnapshot ==
    /\ runPc = "ticked"
    /\ snapshot' = takeSnapshot
    /\ runPc' = "snapped"
    /\ ctlResp' = NoResponse
    /\ UNCHANGED <<nodes, services, tickID, simTimeUnixMs, speedMult, simState,
                   scenario, simMetrics, simEvents>>

\* proto.Marshal reads the Node and Service structs through the snapshot's
\* pointers without the state lock, while ApplyCommand may be writing them
\* under the lock: a data race.  Each field of the marshalled message holds
\* either the value it had when the snapshot was taken or the live value.
mixNode(a, b) ==
    {[cpu |-> a.cpu, mem |-> a.mem, disk |-> a.disk, status |-> st, running |-> rn] :
        st \in {a.status, b.status}, rn \in {a.running, b.running}}

mixService(a, b) ==
    {[rps |-> rps, err |-> err, p50 |-> p50, p99 |-> p99, health |-> h,
      replicas |-> rc, desired |-> ds] :
        rps \in {a.rps, b.rps}, err \in {a.err, b.err}, p50 \in {a.p50, b.p50},
        p99 \in {a.p99, b.p99}, h \in {a.health, b.health},
        rc \in {a.replicas, b.replicas}, ds \in {a.desired, b.desired}}

marshalSnapshot(snap) ==
    LET ns == UNION {mixNode(snap.nodes[n], nodes[n]) : n \in NodeIds}
        ss == UNION {mixService(snap.services[s], services[s]) : s \in ServiceIds}
    IN  {[tick |-> snap.tick, simTime |-> snap.simTime, nodes |-> nf, services |-> sf] :
            nf \in {f \in [NodeIds -> ns] :
                      \A n \in NodeIds : f[n] \in mixNode(snap.nodes[n], nodes[n])},
            sf \in {f \in [ServiceIds -> ss] :
                      \A s \in ServiceIds : f[s] \in mixService(snap.services[s], services[s])}}

\* Publisher.publish of a snapshot: on success the message is on sim.metrics.
publishMetricSnapshot(msg) ==
    simMetrics' = [count |-> simMetrics.count + 1, last |-> msg,
                   prevTick |-> simMetrics.last.tick]

RunPublish(outcomes) ==
    /\ runPc = "snapped"
    /\ \E ok \in outcomes :
          IF ok
          THEN \E msg \in marshalSnapshot(snapshot) : publishMetricSnapshot(msg)
          ELSE UNCHANGED simMetrics    \* "failed to publish metrics" is logged
    /\ runPc' = "timer"
    /\ snapshot' = NoSnapshot
    /\ ctlResp' = NoResponse
    /\ UNCHANGED <<nodes, services, tickID, simTimeUnixMs, speedMult, simState,
                   scenario, simEvents>>

(***************************************************************************)
(* sim-engine: Engine.ApplyCommand                                         *)
(***************************************************************************)
ActionTypes == {"RESTART_SERVICE", "SCALE_UP", "SCALE_DOWN", "DRAIN_NODE",
                "REBALANCE_TRAFFIC"}
CommandTypes == ActionTypes \cup {"UNSPECIFIED"}

\* (variant: the restart leaves latency_p99 as it is)
restartServiceKeepP99(s) ==
    [s EXCEPT !.health = "HEALTHY", !.err = 1, !.p50 = 50]

restartService(s) ==
    [s EXCEPT !.health = "HEALTHY", !.err = 1, !.p50 = 50, !.p99 = 200]

\* (variant: a service may be scaled down to no replica)
scaleDownAllowedAtOne(svc) == svc.replicas >= 1

\* case SCALE_DOWN: ok && svc.ReplicaCount > 1
scaleDownAllowed(svc) == svc.replicas > 1

\* The state after the switch of ApplyCommand.
applyServices(actionType, targetID) ==
    CASE actionType = "RESTART_SERVICE" /\ targetID \in ServiceIds ->
            [services EXCEPT ![targetID] = restartService(@)]
      [] actionType = "SCALE_UP" /\ targetID \in ServiceIds ->
            [services EXCEPT ![targetID] =
                [@ EXCEPT !.replicas = @ + 1, !.desired = services[targetID].replicas + 1]]
      [] actionType = "SCALE_DOWN" /\ targetID \in ServiceIds
            /\ scaleDownAllowed(services[targetID]) ->
            [services EXCEPT ![targetID] =
                [@ EXCEPT !.replicas = @ - 1, !.desired = services[targetID].replicas - 1]]
      [] actionType = "REBALANCE_TRAFFIC" ->
            [s \in ServiceIds |-> [services[s] EXCEPT !.rps = (@ * 9) \div 10]]
      [] OTHER -> services

applyNodes(actionType, targetID) ==
    IF actionType = "DRAIN_NODE" /\ targetID \in NodeIds
    THEN [nodes EXCEPT ![targetID] = [@ EXCEPT !.status = "OFFLINE", !.running = 0]]
    ELSE nodes

\* (variant: the event is named after the action type alone)
eventTypeOfAction(actionType, targetID) ==
    CASE actionType = "RESTART_SERVICE" -> "service_restarted"
      [] actionType = "SCALE_UP" -> "service_scaled_up"
      [] actionType = "SCALE_DOWN" /\ targetID \in ServiceIds
            /\ scaleDownAllowed(services[targetID]) -> "service_scaled_down"
      [] actionType = "DRAIN_NODE" /\ targetID \in NodeIds -> "node_drained"
      [] actionType = "REBALANCE_TRAFFIC" -> "traffic_rebalanced"
      [] OTHER -> ""

\* event.EventType; the empty string when no case assigned it.
eventType(actionType, targetID) ==
    CASE actionType = "RESTART_SERVICE" /\ targetID \in ServiceIds -> "service_restarted"
      [] actionType = "SCALE_UP" /\ targetID \in ServiceIds -> "service_scaled_up"
      [] actionType = "SCALE_DOWN" /\ targetID \in ServiceIds
            /\ scaleDownAllowed(services[targetID]) -> "service_scaled_down"
      [] actionType = "DRAIN_NODE" /\ targetID \in NodeIds -> "node_drained"
      [] actionType = "REBALANCE_TRAFFIC" -> "traffic_rebalanced"
      [] OTHER -> ""

ApplyCommand(actionType, targetID, published) ==
    /\ simEvents.count < MaxCommands
    /\ services' = applyServices(actionType, targetID)
    /\ nodes' = applyNodes(actionType, targetID)
    /\ simEvents' =
          [count |-> simEvents.count + 1,
           last |-> IF published
                    THEN [target |-> targetID,
                          eventType |-> eventType(actionType, targetID)]
                    ELSE simEvents.last]   \* "failed to publish event" is logged
    \* return event, nil
    /\ ctlResp' = [method |-> "ApplyCommand", actionType |-> actionType,
                   target |-> targetID, eventType |-> eventType(actionType, targetID)]
    /\ UNCHANGED <<tickID, simTimeUnixMs, speedMult, simState, scenario, runPc,
                   snapshot, simMetrics>>

(***************************************************************************)
(* sim-engine: the SimulationControl service                               *)
(***************************************************************************)
SpeedInputs == {0, 25, 1000}
ScenarioInputs == {"normal", "high_load", "cascade_failure", "chaos"}
\* (variant: chaos is accepted as well)
validScenariosWithChaos == {"normal", "high_load", "cascade_failure", "chaos"}

validScenarios == {"normal", "high_load", "cascade_failure"}

GetState ==
    /\ ctlResp' = [method |-> "GetState", state |-> simState, speed |-> speedMult,
                   tick |-> tickID, scenario |-> scenario]
    /\ UNCHANGED <<nodes, services, tickID, simTimeUnixMs, speedMult, simState,
                   scenario, runPc, snapshot, simMetrics, simEvents>>

SetState(newState) ==
    /\ SetSimState(newState)
    /\ ctlResp' = [method |-> "SetState", state |-> newState]
    /\ UNCHANGED <<nodes, services, tickID, simTimeUnixMs, speedMult, scenario,
                   runPc, snapshot, simMetrics, simEvents>>

SetSpeed(mult) ==
    /\ SetSpeedMultiplier(mult)
    /\ ctlResp' = [method |-> "SetSpeed", request |-> mult, speed |-> speedMult']
    /\ UNCHANGED <<nodes, services, tickID, simTimeUnixMs, simState, scenario,
                   runPc, snapshot, simMetrics, simEvents>>

LoadScenario(name) ==
    /\ IF name \in validScenarios
       THEN /\ SetScenario(name)
            /\ ctlResp' = [method |-> "LoadScenario", name |-> name, success |-> TRUE]
       ELSE /\ UNCHANGED scenario
            /\ ctlResp' = [method |-> "LoadScenario", name |-> name, success |-> FALSE]
    /\ UNCHANGED <<nodes, services, tickID, simTimeUnixMs, speedMult, simState,
                   runPc, snapshot, simMetrics, simEvents>>

(***************************************************************************)
(* signal-service: detector/rules.go                                       *)
(***************************************************************************)
\* DefaultRules, thresholds in tenths.
DefaultRules ==
    <<[name |-> "high_error_rate", metric |-> "error_rate_percent", operator |-> "gt",
       threshold |-> 50, window |-> 30, severity |-> "WARNING"],
      [name |-> "critical_error_rate", metric |-> "error_rate_percent", operator |-> "gt",
       threshold |-> 100, window |-> 15, severity |-> "CRITICAL"],
      [name |-> "high_cpu_usage", metric |-> "cpu_usage_percent", operator |-> "gt",
       threshold |-> 850, window |-> 60, severity |-> "WARNING"],
      [name |-> "critical_cpu_usage", metric |-> "cpu_usage_percent", operator |-> "gt",
       threshold |-> 950, window |-> 30, severity |-> "CRITICAL"],
      [name |-> "high_memory_usage", metric |-> "memory_usage_percent", operator |-> "gt",
       threshold |-> 900, window |-> 60, severity |-> "WARNING"],
      [name |-> "high_latency", metric |-> "latency_p99_ms", operator |-> "gt",
       threshold |-> 5000, window |-> 30, severity |-> "WARNING"]>>

RuleIndex == 1..Len(DefaultRules)

Evaluate(rule, value) ==
    CASE rule.operator = "gt"  -> value > rule.threshold
      [] rule.operator = "gte" -> value >= rule.threshold
      [] rule.operator = "lt"  -> value < rule.threshold
      [] rule.operator = "lte" -> value <= rule.threshold
      [] rule.operator = "eq"  -> value = rule.threshold
      [] OTHER -> FALSE

\* The metrics map ProcessSnapshot hands to checkRulesForEntity.
nodeMetrics(n) ==
    [cpu_usage_percent |-> n.cpu, memory_usage_percent |-> n.mem,
     disk_usage_percent |-> n.disk]

serviceMetrics(s) ==
    [error_rate_percent |-> s.err, latency_p50_ms |-> s.p50, latency_p99_ms |-> s.p99]

NodeMetricNames == {"cpu_usage_percent", "memory_usage_percent", "disk_usage_percent"}
ServiceMetricNames == {"error_rate_percent", "latency_p50_ms", "latency_p99_ms"}

\* windowKey and incidentKey: "<entityType>:<entityID>:<rule.Name>", for the
\* rules whose metric the entity has.
Keys ==
    {<<"node", n, r>> : n \in NodeIds,
        r \in {i \in RuleIndex : DefaultRules[i].metric \in NodeMetricNames}}
    \cup
    {<<"service", sv, r>> : sv \in ServiceIds,
        r \in {i \in RuleIndex : DefaultRules[i].metric \in ServiceMetricNames}}

\* The order in which one ProcessSnapshot evaluates the keys: nodes, then
\* services, each entity's rules in the order of d.rules.
KeyBefore(a, b) ==
    \/ a[1] = "node" /\ b[1] = "service"
    \/ a[1] = b[1] /\ a[2] = b[2] /\ a[3] < b[3]
    \/ a[1] = b[1] /\ a[2] # b[2] /\ a[2] = "s1"

RECURSIVE InOrder(_)
InOrder(ks) ==
    IF ks = {} THEN <<>>
    ELSE LET first == CHOOSE k \in ks : \A o \in ks \ {k} : KeyBefore(k, o)
         IN  <<first>> \o InOrder(ks \ {first})

\* (variant: an entry whose timestamp is the cutoff is kept)
appendAndEvictFromCutoff(w, value, now, windowSeconds) ==
    LET a == Append(w, [value |-> value, ts |-> now])
        cutoff == now - windowSeconds
        after == {i \in 1..Len(a) : a[i].ts >= cutoff}
        startIdx == IF after = {} THEN 1
                    ELSE CHOOSE i \in after : \A j \in after : i <= j
    IN  SubSeq(a, startIdx, Len(a))

\* Append the sample, then drop what is before the first entry whose
\* timestamp is after the cutoff (startIdx stays 0 when there is none).
appendAndEvict(w, value, now, windowSeconds) ==
    LET a == Append(w, [value |-> value, ts |-> now])
        cutoff == now - windowSeconds
        after == {i \in 1..Len(a) : a[i].ts > cutoff}
        startIdx == IF after = {} THEN 1
                    ELSE CHOOSE i \in after : \A j \in after : i <= j
    IN  SubSeq(a, startIdx, Len(a))

breachCount(w, rule) == Cardinality({i \in 1..Len(w) : Evaluate(rule, w[i].value)})

\* (variant: the latch is not consulted)
raisesIncidentUnlatched(count, size, active) == 10 * count > 7 * size

\* breachRatio > 0.7 && !d.activeIncidents[incidentKey]
raisesIncident(count, size, active) == 10 * count > 7 * size /\ ~active

\* (variant: the latch is released at one half)
clearsIncidentAtHalf(count, size, active) == 10 * count <= 5 * size /\ active

\* breachRatio < 0.3 && d.activeIncidents[incidentKey]
clearsIncident(count, size, active) == 10 * count < 3 * size /\ active

NoEval == [evaluated |-> FALSE]

\* One pass of the loop body of checkRulesForEntity, for one rule whose
\* metric the entity reports: the window after the append and the eviction,
\* whether the rule was judged (at least 3 samples), and the latch decision.
checkRule(window, active, rule, value, now) ==
    LET w == appendAndEvict(window, value, now, rule.window)
        size == Len(w)
        count == breachCount(w, rule)
    IN  [window |-> w,
         judged |-> size >= 3,
         count  |-> count,
         size   |-> size,
         raised |-> size >= 3 /\ raisesIncident(count, size, active),
         cleared |-> size >= 3 /\ ~raisesIncident(count, size, active)
                        /\ clearsIncident(count, size, active)]

skipRule(window) ==
    [window |-> window, judged |-> FALSE, count |-> 0, size |-> Len(window),
     raised |-> FALSE, cleared |-> FALSE]

\* Detector.ProcessSnapshot: checkRulesForEntity for every node and service
\* of the snapshot.  Each key is touched by one entity and one rule, so the
\* keys are computed side by side; the incidents are published in key order.
\* (variant: the latch is set once the incident is published)
latchedWhenPublished(raised, published) == raised /\ published

\* d.activeIncidents[incidentKey] = true comes before PublishIncident.
latched(raised, published) == raised

\* metricsToStore: three rows per node and four per service of the snapshot.
metricRows(snap) ==
    {<<snap.tick, n, name>> : n \in DOMAIN snap.nodes, name \in NodeMetricNames}
    \cup {<<snap.tick, sv, name>> : sv \in DOMAIN snap.services,
              name \in ServiceMetricNames \cup {"requests_per_second"}}

\* MetricsRepository.BatchInsert: one pgx batch, stored as a whole or not at all.
BatchInsert(repo, rows, err) == IF err THEN repo ELSE repo \cup rows

\* (variant: the error of BatchInsert is returned)
snapshotResultStrict(insertErr) == IF insertErr THEN "error" ELSE "nil"

\* "failed to store metrics" is logged; ProcessSnapshot ends in `return nil`.
snapshotResult(insertErr) == "nil"

ProcessSnapshot(snap, now, published, insertErr) ==
    LET present(k) == IF k[1] = "node" THEN k[2] \in DOMAIN snap.nodes
                      ELSE k[2] \in DOMAIN snap.services
        value(k) == IF k[1] = "node"
                    THEN nodeMetrics(snap.nodes[k[2]])[DefaultRules[k[3]].metric]
                    ELSE serviceMetrics(snap.services[k[2]])[DefaultRules[k[3]].metric]
        incident(k) == [key |-> k, tick |-> snap.tick,
                        severity |-> DefaultRules[k[3]].severity,
                        rule |-> DefaultRules[k[3]].name,
                        affected |-> <<k[2]>>, value |-> value(k)]
    IN  \E res \in {[k \in Keys |->
                        IF present(k)
                        THEN checkRule(windows[k], k \in activeIncidents,
                                       DefaultRules[k[3]], value(k), now)
                        ELSE skipRule(windows[k])]} :
        \E order \in {InOrder({k \in Keys : published /\ res[k].raised})} :
          /\ windows' = [k \in Keys |-> res[k].window]
          /\ activeIncidents' = (activeIncidents
                                    \cup {k \in Keys : latched(res[k].raised, published)})
                                    \ {k \in Keys : res[k].cleared}
          /\ opsIncidents' = opsIncidents \o [i \in 1..Len(order) |-> incident(order[i])]
          /\ evalLog' = [k \in Keys |->
                IF res[k].judged
                THEN [evaluated |-> TRUE, count |-> res[k].count, size |-> res[k].size,
                      emitted |-> published /\ res[k].raised]
                ELSE NoEval]
          /\ openIncidents' = [k \in Keys |->
                IF res[k].cleared /\ 10 * res[k].count < 3 * res[k].size THEN 0
                ELSE IF published /\ res[k].raised THEN openIncidents[k] + 1
                ELSE openIncidents[k]]
          /\ inBand' = [k \in Keys |->
                inBand[k] /\ (res[k].judged =>
                    /\ 10 * res[k].count >= 3 * res[k].size
                    /\ 10 * res[k].count <= 7 * res[k].size)]
          /\ metricsRepo' = BatchInsert(metricsRepo, metricRows(snap), insertErr)
          /\ detResult' = snapshotResult(insertErr)

InitDetector ==
    /\ windows = [k \in Keys |-> <<>>]
    /\ activeIncidents = {}
    /\ detNow = 0
    /\ detSamples = 0
    /\ opsIncidents = <<>>
    /\ evalLog = [k \in Keys |-> NoEval]
    /\ openIncidents = [k \in Keys |-> 0]
    /\ inBand = [k \in Keys |-> TRUE]
    /\ metricsRepo = {}
    /\ detResult = None

(***************************************************************************)
(* storage: actions_repo.go, incidents_repo.go                             *)
(***************************************************************************)
\* ActionsRepository.Create: INSERT; the primary key rejects a second row
\* with the same id.
actionsCreate(repo, row) ==
    IF row.id \in DOMAIN repo THEN repo ELSE repo @@ (row.id :> row)

\* IncidentsRepository.Create: INSERT; the primary key rejects a second row
\* with the same id.
incidentsCreate(repo, incident) == repo \cup {incident.id}

NoRow ==
    [id |-> 0, incidentId |-> None, proposedAtTick |-> 0, actionType |-> "UNSPECIFIED",
     targetId |-> None, status |-> "UNSPECIFIED", parameters |-> <<>>, resultMessage |-> ""]

\* (variant: a lookup that always finds a row)
GetByIDAlways(repo, id) ==
    IF id \in DOMAIN repo THEN repo[id] ELSE [NoRow EXCEPT !.id = id]

\* ActionsRepository.GetByID: the row, or nil (NoRow) on ErrNoRows.
GetByID(repo, id) == IF id \in DOMAIN repo THEN repo[id] ELSE NoRow

\* ActionsRepository.ListPending: WHERE status = 1.
ListPending(repo) == {id \in DOMAIN repo : repo[id].status = "PENDING"}

\* (variant: only a PENDING row is updated)
UpdateStatusFromPending(repo, id, status, resultMessage) ==
    [k \in DOMAIN repo |->
        IF k = id /\ repo[k].status = "PENDING"
        THEN [repo[k] EXCEPT !.status = status, !.resultMessage = resultMessage]
        ELSE repo[k]]

\* ActionsRepository.UpdateStatus: UPDATE ... WHERE id = $1, whatever the
\* row's status; no row matches an unknown id.
UpdateStatus(repo, id, status, resultMessage) ==
    [k \in DOMAIN repo |->
        IF k = id THEN [repo[k] EXCEPT !.status = status, !.resultMessage = resultMessage]
        ELSE repo[k]]

Approve(repo, id) == UpdateStatus(repo, id, "APPROVED", "")

\* (variant: the reason is not stored)
RejectWithoutReason(repo, id, reason) == UpdateStatus(repo, id, "REJECTED", "")

Reject(repo, id, reason) == UpdateStatus(repo, id, "REJECTED", reason)

MarkExecuting(repo, id) == UpdateStatus(repo, id, "EXECUTING", "")

MarkCompleted(repo, id, resultMessage) == UpdateStatus(repo, id, "COMPLETED", resultMessage)

MarkFailed(repo, id, errorMessage) == UpdateStatus(repo, id, "FAILED", errorMessage)

InitStore == actionsRepo = <<>>

(***************************************************************************)
(* agent-service: decider/decider.go                                       *)
(***************************************************************************)
cooldownDuration == 30

\* (variant: the key is the target alone)
actionKeyByTarget(incident) == <<"", incident.affected[1]>>

\* fmt.Sprintf("%s:%s", incident.RuleName, incident.AffectedIds[0])
actionKey(incident) == <<incident.rule, incident.affected[1]>>

\* (variant: the cooldown is shorter than cooldownDuration)
cooldownActiveShort(recent, key, now) ==
    key \in DOMAIN recent /\ now - recent[key] < cooldownDuration - 1

\* (variant: the cooldown map is never consulted)
cooldownIgnored(recent, key, now) == FALSE

\* lastAction, ok := d.recentActions[actionKey]; time.Since(lastAction) < d.cooldownDuration
cooldownActive(recent, key, now) ==
    key \in DOMAIN recent /\ now - recent[key] < cooldownDuration

NoAction == [id |-> 0]

NoIncident == [id |-> None, rule |-> None, severity |-> None, affected |-> <<>>, tick |-> 0]

\* (variant: the target is the last affected id, the tick is taken as is)
decideActionLastTarget(incident, id) ==
    IF Len(incident.affected) = 0 THEN NoAction
    ELSE LET action(type) ==
                [id |-> id, incidentId |-> incident.id, proposedAtTick |-> incident.tick,
                 targetId |-> incident.affected[Len(incident.affected)], status |-> "PENDING",
                 parameters |-> <<>>, actionType |-> type]
         IN  CASE incident.rule \in {"high_error_rate", "critical_error_rate"}
                    -> action("RESTART_SERVICE")
               [] incident.rule \in {"high_cpu_usage", "critical_cpu_usage"}
                    -> IF incident.severity = "CRITICAL" THEN action("SCALE_UP")
                       ELSE action("REBALANCE_TRAFFIC")
               [] incident.rule = "high_memory_usage" -> action("RESTART_SERVICE")
               [] incident.rule = "high_latency" -> action("SCALE_UP")
               [] OTHER -> NoAction

\* Decider.decideAction; id is the value randomUUID() returns.
decideAction(incident, id) ==
    IF Len(incident.affected) = 0 THEN NoAction
    ELSE LET action(type) ==
                [id |-> id, incidentId |-> incident.id, proposedAtTick |-> incident.tick,
                 targetId |-> incident.affected[1], status |-> "PENDING",
                 parameters |-> <<>>, actionType |-> type]
         IN  CASE incident.rule \in {"high_error_rate", "critical_error_rate"}
                    -> action("RESTART_SERVICE")
               [] incident.rule \in {"high_cpu_usage", "critical_cpu_usage"}
                    -> IF incident.severity = "CRITICAL" THEN action("SCALE_UP")
                       ELSE action("REBALANCE_TRAFFIC")
               [] incident.rule = "high_memory_usage" -> action("RESTART_SERVICE")
               [] incident.rule = "high_latency" -> action("SCALE_UP")
               [] OTHER -> NoAction

\* Decider.storeAction: the row written for an action.
actionRow(action) ==
    [id |-> action.id, incidentId |-> action.incidentId,
     proposedAtTick |-> action.proposedAtTick, actionType |-> action.actionType,
     targetId |-> action.targetId, status |-> action.status,
     parameters |-> action.parameters, resultMessage |-> ""]

Faults == {"none", "storeIncident", "storeAction", "publish"}

\* (variant: the error of storeAction is returned as well)
returnsErrorOnStoreToo(fault) == fault \in {"storeAction", "publish"}

\* The one error ProcessIncident returns is that of PublishAction; the errors
\* of storeIncident and storeAction are logged.
returnsError(fault) == fault = "publish"

\* Decider.ProcessIncident, called when the clock reads `now`.  The whole
\* body runs under d.mu, so concurrent calls execute one after the other.
\* toPublish is the time that passes from the cooldown check to the
\* publication, toRecord from the publication to the write of recentActions;
\* fault names the one call that fails, if any.
ProcessIncident(incident, now, toPublish, toRecord, fault) ==
    LET stored == IF fault = "storeIncident" THEN incidentsRepo
                  ELSE incidentsCreate(incidentsRepo, incident)
    IN
    /\ agentState = "up"
    /\ agentLast' = [incident |-> incident, now |-> now, fault |-> fault]
    /\ incidentsRepo' = stored
    /\ IF Len(incident.affected) = 0
       THEN \* incident.AffectedIds[0] panics: index out of range
            /\ agentState' = "crashed"
            /\ deciderResult' = "panic"
            /\ agentNow' = now
            /\ UNCHANGED <<recentActions, nextActionId, actionsRepo, opsActions>>
       ELSE IF cooldownActive(recentActions, actionKey(incident), now)
       THEN /\ deciderResult' = "nil"
            /\ agentNow' = now
            /\ UNCHANGED <<recentActions, agentState, nextActionId, actionsRepo, opsActions>>
       ELSE LET action == decideAction(incident, nextActionId)
            IN  IF action = NoAction
                THEN /\ deciderResult' = "nil"
                     /\ agentNow' = now
                     /\ UNCHANGED <<recentActions, agentState, nextActionId,
                                    actionsRepo, opsActions>>
                ELSE /\ nextActionId' = nextActionId + 1
                     /\ actionsRepo' = IF fault = "storeAction" THEN actionsRepo
                                       ELSE actionsCreate(actionsRepo, actionRow(action))
                     /\ agentState' = agentState
                     /\ IF returnsError(fault)
                        THEN /\ deciderResult' = "error"
                             /\ agentNow' = now + toPublish
                             /\ UNCHANGED <<recentActions, opsActions>>
                        ELSE /\ opsActions' = Append(opsActions,
                                    [action |-> action, at |-> now + toPublish])
                             /\ recentActions' =
                                    [k \in DOMAIN recentActions \cup {actionKey(incident)} |->
                                        IF k = actionKey(incident)
                                        THEN now + toPublish + toRecord
                                        ELSE recentActions[k]]
                             /\ agentNow' = now + toPublish + toRecord
                             /\ deciderResult' = "nil"

InitAgent ==
    /\ recentActions = <<>>
    /\ agentNow = 0
    /\ agentState = "up"
    /\ agentDeliveries = 0
    /\ deciderResult = None
    /\ agentLast = [incident |-> NoIncident, now |-> 0, fault |-> None]
    /\ nextActionId = 1
    /\ incidentsRepo = {}
    /\ opsActions = <<>>

(***************************************************************************)
(* orchestrator: ActionServer (part_007)                                   *)
(***************************************************************************)
\* (variant: the command carries the tick after the proposal)
approveCommandNextTick(actionID, action) ==
    [actionId |-> actionID, targetTickId |-> action.proposedAtTick + 1,
     actionType |-> action.actionType, targetId |-> action.targetId,
     parameters |-> action.parameters]

\* The ApplyActionCommand ApproveAction builds from the row it read.
approveCommand(actionID, action) ==
    [actionId |-> actionID, targetTickId |-> action.proposedAtTick,
     actionType |-> action.actionType, targetId |-> action.targetId,
     parameters |-> action.parameters]

ApproveFaults == {"none", "get", "approve", "publish"}

\* (variant: the status is written only once the command is published)
ApproveActionRollingBack(actionID, fault) ==
    LET action == GetByID(actionsRepo, actionID)
        respond(code) == orchResp' = [method |-> "ApproveAction", id |-> actionID,
                                      code |-> code, read |-> action.status,
                                      fault |-> fault]
    IN  IF fault = "get"
        THEN respond("INTERNAL") /\ UNCHANGED <<actionsRepo, opsCommands>>
        ELSE IF action = NoRow
        THEN respond("NOT_FOUND") /\ UNCHANGED <<actionsRepo, opsCommands>>
        ELSE IF fault \in {"approve", "publish"}
        THEN respond("INTERNAL") /\ UNCHANGED <<actionsRepo, opsCommands>>
        ELSE /\ actionsRepo' = Approve(actionsRepo, actionID)
             /\ opsCommands' = Append(opsCommands, approveCommand(actionID, action))
             /\ respond("OK")

\* ActionServer.ApproveAction; fault names the call that fails, if any.  The
\* response is kept with the request's id, the status of the row read and
\* the fault.
ApproveAction(actionID, fault) ==
    LET action == GetByID(actionsRepo, actionID)
        respond(code) == orchResp' = [method |-> "ApproveAction", id |-> actionID,
                                      code |-> code, read |-> action.status,
                                      fault |-> fault]
    IN  IF fault = "get"
        THEN respond("INTERNAL") /\ UNCHANGED <<actionsRepo, opsCommands>>
        ELSE IF action = NoRow
        THEN respond("NOT_FOUND") /\ UNCHANGED <<actionsRepo, opsCommands>>
        ELSE IF fault = "approve"
        THEN respond("INTERNAL") /\ UNCHANGED <<actionsRepo, opsCommands>>
        ELSE /\ actionsRepo' = Approve(actionsRepo, actionID)
             /\ IF fault = "publish"
                THEN respond("INTERNAL") /\ UNCHANGED opsCommands
                ELSE /\ opsCommands' = Append(opsCommands, approveCommand(actionID, action))
                     /\ respond("OK")

RejectFaults == {"none", "reject"}

\* (variant: the action is looked up first, as ApproveAction does)
RejectActionChecked(actionID, reason, fault) ==
    LET respond(code) == orchResp' = [method |-> "RejectAction", id |-> actionID,
                                      reason |-> reason, code |-> code, fault |-> fault]
    IN  /\ UNCHANGED opsCommands
        /\ IF GetByID(actionsRepo, actionID) = NoRow
           THEN respond("NOT_FOUND") /\ UNCHANGED actionsRepo
           ELSE IF fault = "reject"
           THEN respond("INTERNAL") /\ UNCHANGED actionsRepo
           ELSE respond("OK") /\ actionsRepo' = Reject(actionsRepo, actionID, reason)

\* ActionServer.RejectAction.
RejectAction(actionID, reason, fault) ==
    LET respond(code) == orchResp' = [method |-> "RejectAction", id |-> actionID,
                                      reason |-> reason, code |-> code, fault |-> fault]
    IN  /\ UNCHANGED opsCommands
        /\ IF fault = "reject"
           THEN respond("INTERNAL") /\ UNCHANGED actionsRepo
           ELSE respond("OK") /\ actionsRepo' = Reject(actionsRepo, actionID, reason)

\* ActionServer.ListPendingActions.
ListPendingActions ==
    /\ orchResp' = [method |-> "ListPendingActions", id |-> 0, code |-> "OK",
                    actions |-> ListPending(actionsRepo)]
    /\ UNCHANGED <<actionsRepo, opsCommands>>

\* The calls of ApproveAction that the server handles concurrently, each in
\* its own goroutine: GetByID, Approve and PublishCommand are three separate
\* steps of a call, and err says whether the step's call fails.
CallIds == {"a", "b"}

NoCall == [pc |-> "idle", id |-> 0, read |-> NoRow, code |-> None]

approveGetByID(k, actionID, err) ==
    LET action == GetByID(actionsRepo, actionID)
    IN  /\ approvals[k].pc = "idle"
        /\ approvals' = [approvals EXCEPT ![k] =
              IF err THEN [pc |-> "done", id |-> actionID, read |-> NoRow, code |-> "INTERNAL"]
              ELSE IF action = NoRow
              THEN [pc |-> "done", id |-> actionID, read |-> NoRow, code |-> "NOT_FOUND"]
              ELSE [pc |-> "read", id |-> actionID, read |-> action, code |-> None]]
        /\ UNCHANGED <<actionsRepo, opsCommands, orchResp>>

approveUpdate(k, err) ==
    /\ approvals[k].pc = "read"
    /\ IF err
       THEN /\ approvals' = [approvals EXCEPT ![k].pc = "done", ![k].code = "INTERNAL"]
            /\ UNCHANGED actionsRepo
       ELSE /\ approvals' = [approvals EXCEPT ![k].pc = "updated"]
            /\ actionsRepo' = Approve(actionsRepo, approvals[k].id)
    /\ UNCHANGED <<opsCommands, orchResp>>

approvePublish(k, err) ==
    /\ approvals[k].pc = "updated"
    /\ IF err
       THEN /\ approvals' = [approvals EXCEPT ![k].pc = "done", ![k].code = "INTERNAL"]
            /\ UNCHANGED opsCommands
       ELSE /\ approvals' = [approvals EXCEPT ![k].pc = "done", ![k].code = "OK"]
            /\ opsCommands' = Append(opsCommands,
                                     approveCommand(approvals[k].id, approvals[k].read))
    /\ UNCHANGED <<actionsRepo, orchResp>>

InitOrchestrator ==
    /\ opsCommands = <<>>
    /\ orchResp = NoResponse
    /\ approvals = [k \in CallIds |-> NoCall]

(***************************************************************************)
(* orchestrator: server.StreamHub (stream.go)                              *)
(*                                                                         *)
(* A bus message is named by its serial number on the bus (a positive      *)
(* integer); 0 stands for the nil pointer of a cache slot that was never    *)
(* written.  A client is one call of ServeHTTP with its channel.            *)
(***************************************************************************)
BufferCapacity == 100

ClientIds == {"c1", "c2"}

HubKinds == {"metrics", "incident", "action"}

NoPayload == 0

\* json.Marshal(map[string]any{"type": kind, "payload": payload})
hubMessage(kind, payload) == [type |-> kind, payload |-> payload]

\* The comment frame ": keepalive".
keepaliveFrame == [type |-> "keepalive", payload |-> NoPayload]

NoClient == [pc |-> None, ch |-> <<>>, written |-> <<>>, flushed |-> 0,
             seen |-> [metrics |-> NoPayload, incident |-> NoPayload, action |-> NoPayload]]

\* A send that appends whatever the buffer holds.
enqueueAlways(ch, data) == Append(ch, data)

\* select { case ch <- data: default: } on a channel of capacity 100.
enqueue(ch, data) == IF Len(ch) < BufferCapacity THEN Append(ch, data) ELSE ch

\* (variant: a closed channel stays in the registry)
registeredOrClosed(clients) ==
    {c \in ClientIds : clients[c].pc \in {"registered", "streaming", "closed"}}

\* h.clients: the channels addClient registered and removeClient has not removed.
registered(clients) == {c \in ClientIds : clients[c].pc \in {"registered", "streaming"}}

\* The first half of a subscription handler: the cache slot is written under h.mu.
hubStore(kind, payload) ==
    /\ hubPending[kind] = NoPayload
    /\ hubLatest' = [hubLatest EXCEPT ![kind] = payload]
    /\ hubPending' = [hubPending EXCEPT ![kind] = payload]
    /\ hubSerial' = payload
    /\ UNCHANGED hubClients

\* The second half: broadcast, under the read lock.
broadcast(kind) ==
    /\ hubPending[kind] # NoPayload
    /\ hubClients' = [c \in ClientIds |->
                        IF c \in registered(hubClients)
                        THEN [hubClients[c] EXCEPT
                                !.ch = enqueue(@, hubMessage(kind, hubPending[kind]))]
                        ELSE hubClients[c]]
    /\ hubPending' = [hubPending EXCEPT ![kind] = NoPayload]
    /\ UNCHANGED <<hubLatest, hubSerial>>

\* ServeHTTP up to addClient: ch := make(chan []byte, 100); h.addClient(ch).
addClient(c) ==
    /\ hubClients[c].pc = None
    /\ hubClients' = [hubClients EXCEPT ![c] = [NoClient EXCEPT !.pc = "registered"]]
    /\ UNCHANGED <<hubLatest, hubPending, hubSerial>>

\* The initial state written on connect, which reads the channel first.
sendInitialAfterBuffer(c) ==
    /\ hubClients[c].pc = "registered"
    /\ LET cl == hubClients[c]
           fromBuffer == IF cl.ch = <<>> THEN <<>> ELSE <<Head(cl.ch)>>
           rest == IF cl.ch = <<>> THEN <<>> ELSE Tail(cl.ch)
           initial == IF hubLatest.metrics # NoPayload
                      THEN <<hubMessage("metrics", hubLatest.metrics)>> ELSE <<>>
       IN  hubClients' = [hubClients EXCEPT ![c] =
               [cl EXCEPT !.pc = "streaming", !.ch = rest,
                          !.written = fromBuffer \o initial,
                          !.flushed = Len(initial), !.seen = hubLatest]]
    /\ UNCHANGED <<hubLatest, hubPending, hubSerial>>

\* ServeHTTP, "Send initial state": under the read lock, the latest snapshot
\* (if any) is written and flushed; then the handler enters its loop.
sendInitial(c) ==
    /\ hubClients[c].pc = "registered"
    /\ LET cl == hubClients[c]
           initial == IF hubLatest.metrics # NoPayload
                      THEN <<hubMessage("metrics", hubLatest.metrics)>> ELSE <<>>
       IN  hubClients' = [hubClients EXCEPT ![c] =
               [cl EXCEPT !.pc = "streaming", !.written = initial,
                          !.flushed = Len(initial), !.seen = hubLatest]]
    /\ UNCHANGED <<hubLatest, hubPending, hubSerial>>

\* The loop of ServeHTTP, case data := <-ch: one frame is written and flushed.
writeFrame(c) ==
    /\ hubClients[c].pc = "streaming"
    /\ hubClients[c].ch # <<>>
    /\ Len(hubClients[c].written) < hubClients[c].flushed + MaxFrames
    /\ hubClients' = [hubClients EXCEPT ![c].written = Append(@, Head(hubClients[c].ch)),
                                       ![c].ch = Tail(@)]
    /\ UNCHANGED <<hubLatest, hubPending, hubSerial>>

\* The loop of ServeHTTP, case <-ticker.C.
writeKeepalive(c) ==
    /\ hubClients[c].pc = "streaming"
    /\ Len(hubClients[c].written) < hubClients[c].flushed + MaxFrames
    /\ hubClients' = [hubClients EXCEPT ![c].written = Append(@, keepaliveFrame)]
    /\ UNCHANGED <<hubLatest, hubPending, hubSerial>>

\* The loop of ServeHTTP, case <-r.Context().Done(): return, and the deferred
\* removeClient deletes the channel and closes it.
removeClient(c) ==
    /\ hubClients[c].pc = "streaming"
    /\ hubClients' = [hubClients EXCEPT ![c].pc = "closed", ![c].ch = <<>>]
    /\ UNCHANGED <<hubLatest, hubPending, hubSerial>>

\* The buffer of a client that was sent the snapshots 1..n and read none:
\* enqueue keeps the first BufferCapacity of them.
backlog(n) ==
    [i \in 1..(IF n < BufferCapacity THEN n ELSE BufferCapacity) |-> hubMessage("metrics", i)]

BacklogLen == BufferCapacity - 1

\* NewStreamHub: no client, empty caches.
NewStreamHub ==
    /\ hubLatest = [metrics |-> NoPayload, incident |-> NoPayload, action |-> NoPayload]
    /\ hubPending = [k \in HubKinds |-> NoPayload]
    /\ hubClients = [c \in ClientIds |-> NoClient]
    /\ hubSerial = BacklogLen

\* A hub whose first client connected before any message and has read none
\* of the BacklogLen snapshots broadcast since.
SlowClientHub ==
    /\ hubLatest = [metrics |-> BacklogLen, incident |-> NoPayload, action |-> NoPayload]
    /\ hubPending = [k \in HubKinds |-> NoPayload]
    /\ hubClients = [c \in ClientIds |->
                        IF c = "c1"
                        THEN [NoClient EXCEPT !.pc = "streaming", !.ch = backlog(BacklogLen)]
                        ELSE NoClient]
    /\ hubSerial = BacklogLen

(***************************************************************************)
(* pkg/bus: Subscriber (in actions_repo.go).  One durable consumer with    *)
(* explicit acknowledgement: JetStream keeps a message pending, and        *)
(* delivers it again, until the consumer has acked it.                     *)
(***************************************************************************)
\* proto.Marshal: the bytes of a message.
marshal(msg) == <<"proto", msg>>

\* Bytes that are no encoding of the subscription's message type.
junkBytes == <<"junk">>

\* proto.Unmarshal(data, &msg)
unmarshal(data) ==
    IF Len(data) = 2 /\ data[1] = "proto"
    THEN [err |-> FALSE, msg |-> data[2]]
    ELSE [err |-> TRUE, msg |-> NoPayload]

\* A typed callback that hands the handler whatever Unmarshal left in msg.
typedHandlerLenient(data, handlerErr) == handlerErr

\* The callback SubscribeIncidents (and each Subscribe*) wraps the handler
\* in: the error of Unmarshal, or else what the handler returns.
typedHandler(data, handlerErr) ==
    IF unmarshal(data).err THEN TRUE ELSE handlerErr

\* The Consume callback of subscribe: Nak on an error, else Ack.
consume(id, handlerErr) ==
    LET err == typedHandler(busStream[id], handlerErr)
    IN  /\ id \in busPending
        /\ busPending' = IF err THEN busPending ELSE busPending \ {id}
        /\ busAcked' = IF err THEN busAcked ELSE busAcked \cup {id}
        /\ busLog' = Append(busLog, [id |-> id, handled |-> ~unmarshal(busStream[id]).err,
                                     handlerErr |-> handlerErr,
                                     verdict |-> IF err THEN "nak" ELSE "ack"])
        /\ UNCHANGED busStream

\* A publication on the subject the consumer filters on.
busPublish(data) ==
    /\ busStream' = Append(busStream, data)
    /\ busPending' = busPending \cup {Len(busStream) + 1}
    /\ UNCHANGED <<busAcked, busLog>>

InitBus ==
    /\ busStream = <<>>
    /\ busPending = {}
    /\ busAcked = {}
    /\ busLog = <<>>

(***************************************************************************)
(* SpecEngine: the engine's data path.  The Run loop with every tick draw  *)
(* and scenario, started by SetState(RUNNING), and ApplyCommand called     *)
(* from another goroutine at any point of the loop.                        *)
(***************************************************************************)
\* A step of one service leaves the state of the others alone.
EngineOnly == UNCHANGED <<detectorVars, agentVars, storeVars, orchVars, hubVars, busVars, callVars>>

Init ==
    /\ InitEngine /\ InitDetector /\ InitAgent /\ InitStore /\ InitOrchestrator
    /\ NewStreamHub /\ InitBus

\* The initial state in which the first service drew the lower request rate;
\* the specifications of the other services start from it.
InitIdle == Init /\ services["s1"].rps < services["s2"].rps

CommandInputs ==
    {<<"RESTART_SERVICE", "s1">>, <<"SCALE_UP", "s2">>, <<"DRAIN_NODE", "n1">>,
     <<"REBALANCE_TRAFFIC", UnknownId>>, <<"SCALE_DOWN", "n1">>}

NextEngine ==
    \/ RunTimer /\ EngineOnly
    \/ RunTick(TickDraws) /\ EngineOnly
    \/ RunSnapshot /\ EngineOnly
    \/ RunPublish({TRUE}) /\ EngineOnly
    \/ SetState("RUNNING") /\ EngineOnly
    \/ (\E name \in ScenarioInputs : LoadScenario(name)) /\ EngineOnly
    \/ (\E c \in CommandInputs : ApplyCommand(c[1], c[2], TRUE)) /\ EngineOnly

SpecEngine == Init /\ [][NextEngine]_vars

(***************************************************************************)
(* SpecControl: the engine's control surface.  Every SimulationControl     *)
(* RPC (SetSpeed with out-of-range speeds, LoadScenario with a known and   *)
(* an unknown name), the Run loop with publish failures, and ApplyCommand; *)
(* the walks of a tick all draw their lowest value and the scenario        *)
(* overlays draw no change.                                                *)
(***************************************************************************)
ControlDraws == {d \in TickDraws : d.dir = -1 /\ d.dir99 = -1 /\ d.load = 0 /\ d.cascade = {}}

ControlCommands == {<<"RESTART_SERVICE", "s1">>}

ControlSpeeds == {m \in SpeedInputs : m < 1 \/ m > 100}

ControlScenarios == {name \in ScenarioInputs : name \notin {"normal", "cascade_failure"}}

NextControl ==
    \/ RunTimer /\ EngineOnly
    \/ RunTick(ControlDraws) /\ EngineOnly
    \/ RunSnapshot /\ EngineOnly
    \/ RunPublish(BOOLEAN) /\ EngineOnly
    \/ GetState /\ EngineOnly
    \/ (\E st \in SimStates : SetState(st)) /\ EngineOnly
    \/ (\E m \in ControlSpeeds : SetSpeed(m)) /\ EngineOnly
    \/ (\E name \in ControlScenarios : LoadScenario(name)) /\ EngineOnly
    \/ (\E c \in ControlCommands : ApplyCommand(c[1], c[2], TRUE)) /\ EngineOnly

SpecControl == InitIdle /\ [][NextControl]_vars

(***************************************************************************)
(* SpecDetector: the signal-service consumer.  Snapshots arrive from        *)
(* sim.metrics one at a time (the subscription handles one message at a     *)
(* time); between two of them the wall clock advances by a short or a long  *)
(* delay; publishing the incidents of a snapshot succeeds or fails.         *)
(***************************************************************************)
calmNode == [cpu |-> 500, mem |-> 500, disk |-> 100]
warmNode == [cpu |-> 900, mem |-> 500, disk |-> 100]
hotNode  == [cpu |-> 960, mem |-> 950, disk |-> 100]

calmService == [err |-> 1, p50 |-> 50, p99 |-> 200]
warmService == [err |-> 70, p50 |-> 50, p99 |-> 200]
hotService  == [err |-> 120, p50 |-> 50, p99 |-> 6000]

DetectorSnapshots(tick) ==
    {[tick |-> tick, nodes |-> [n \in {"n1"} |-> p[1]], services |-> [sv \in {"s1"} |-> p[2]]] :
        p \in {<<calmNode, calmService>>, <<warmNode, warmService>>, <<hotNode, hotService>>}}

DetectorDelays == {1, 20}

\* One delivery of the signal-service subscription on sim.metrics.
HandleMetrics(delays, outcomes, insertErrs) ==
    /\ detSamples < MaxSamples
    /\ \E snap \in DetectorSnapshots(detSamples + 1), delay \in delays,
          published \in outcomes, insertErr \in insertErrs :
          /\ detNow' = detNow + delay
          /\ detSamples' = detSamples + 1
          /\ ProcessSnapshot(snap, detNow', published, insertErr)
    /\ UNCHANGED <<engineVars, agentVars, storeVars, orchVars, hubVars, busVars, callVars>>

NextDetector == HandleMetrics(DetectorDelays, BOOLEAN, {FALSE})

SpecDetector == InitIdle /\ [][NextDetector]_vars

(***************************************************************************)
(* SpecDecider: the agent-service consumer.  Incidents are delivered from   *)
(* ops.incidents, possibly more than once; the clock advances between two   *)
(* deliveries and inside a call; a store or the publication may fail.       *)
(***************************************************************************)
DeciderIncidents ==
    {[id |-> "i1", rule |-> "high_error_rate", severity |-> "WARNING",
      affected |-> <<"s1">>, tick |-> 3],
     [id |-> "i2", rule |-> "high_error_rate", severity |-> "WARNING",
      affected |-> <<"s1", "s2">>, tick |-> 5],
     [id |-> "i3", rule |-> "critical_cpu_usage", severity |-> "CRITICAL",
      affected |-> <<"n1">>, tick |-> 4],
     [id |-> "i4", rule |-> "high_cpu_usage", severity |-> "WARNING",
      affected |-> <<"n1">>, tick |-> 4],
     [id |-> "i5", rule |-> "disk_pressure", severity |-> "WARNING",
      affected |-> <<"s1">>, tick |-> 6],
     [id |-> "i6", rule |-> "high_latency", severity |-> "WARNING",
      affected |-> <<>>, tick |-> 7]}

DeciderGaps == {1, 29, 30}

DeciderLatencies == {0, 2}

\* One delivery of the agent-service subscription on ops.incidents.
HandleIncident(incidents, gaps, latencies, faults) ==
    /\ agentDeliveries < MaxDeliveries
    /\ agentDeliveries' = agentDeliveries + 1
    /\ \E incident \in incidents, gap \in gaps,
          toPublish \in latencies, toRecord \in latencies, fault \in faults :
          ProcessIncident(incident, agentNow + gap, toPublish, toRecord, fault)

NextDecider ==
    /\ HandleIncident(DeciderIncidents, DeciderGaps, DeciderLatencies, Faults)
    /\ UNCHANGED <<engineVars, detectorVars, orchVars, hubVars, busVars, callVars>>

SpecDecider == InitIdle /\ [][NextDecider]_vars

(***************************************************************************)
(* SpecOrchestrator: the approval surface.  The decider proposes actions    *)
(* (one of them may fail to be stored); operators call ApproveAction,       *)
(* RejectAction and ListPendingActions with known and unknown ids, and a    *)
(* repository call or the publication may fail.  Calls are served one at a  *)
(* time.                                                                    *)
(***************************************************************************)
ProposedIncidents == {incident \in DeciderIncidents : incident.id \in {"i2", "i3"}}

ActionIdInputs == {1, 2, 9}

ReasonInputs == {"operator", ""}

\* The decider proposes an action; no ActionService call is in progress.
Propose(incidents, faults) ==
    /\ HandleIncident(incidents, {cooldownDuration}, {0}, faults)
    /\ orchResp' = NoResponse
    /\ UNCHANGED <<opsCommands, engineVars, detectorVars, hubVars, busVars, callVars>>

OrchestratorOnly == UNCHANGED <<engineVars, detectorVars, agentVars, hubVars, busVars, callVars>>

NextOrchestrator ==
    \/ Propose(ProposedIncidents, {"none", "storeAction"})
    \/ /\ Len(opsCommands) < MaxApprovals
       /\ \E id \in ActionIdInputs, fault \in ApproveFaults : ApproveAction(id, fault)
       /\ OrchestratorOnly
    \/ /\ \E id \in ActionIdInputs, reason \in ReasonInputs, fault \in RejectFaults :
             RejectAction(id, reason, fault)
       /\ OrchestratorOnly
    \/ ListPendingActions /\ OrchestratorOnly

SpecOrchestrator == InitIdle /\ [][NextOrchestrator]_vars

(***************************************************************************)
(* SpecLoop: the path of an approved command.  The decider proposes an      *)
(* action, the operator approves it, and the sim-engine process runs what   *)
(* its run function starts: the Run loop and the SimulationControl server.  *)
(* run makes no subscription on ops.commands, and nothing calls             *)
(* ApplyCommand, so no step of the process takes a command from the bus.    *)
(* The ticker keeps firing, so the Run loop is weakly fair.                 *)
(***************************************************************************)
LoopIncidents == {incident \in DeciderIncidents : incident.id = "i1"}

\* One step of the goroutine run starts with eng.Run.
RunLoop ==
    \/ RunTimer
    \/ RunTick(ControlDraws)
    \/ RunSnapshot
    \/ RunPublish({TRUE})

NextLoop ==
    \/ RunTimer /\ EngineOnly
    \/ RunTick(ControlDraws) /\ EngineOnly
    \/ RunSnapshot /\ EngineOnly
    \/ RunPublish({TRUE}) /\ EngineOnly
    \/ (\E st \in SimStates : SetState(st)) /\ EngineOnly
    \/ (\E name \in ScenarioInputs : LoadScenario(name)) /\ EngineOnly
    \/ Propose(LoopIncidents, {"none"})
    \/ /\ Len(opsCommands) < MaxApprovals
       /\ \E id \in DOMAIN actionsRepo : ApproveAction(id, "none")
       /\ OrchestratorOnly

SpecLoop == InitIdle /\ [][NextLoop]_vars /\ WF_vars(RunLoop /\ EngineOnly)

(***************************************************************************)
(* SpecHub: the stream hub.  The three subscriptions deliver messages (one  *)
(* handler per subscription at a time, the three concurrently), SSE clients *)
(* connect, are written frames and keepalives, and disconnect.  The hub     *)
(* starts either freshly constructed, or with one client that has read      *)
(* none of the snapshots broadcast since it connected.                      *)
(***************************************************************************)
HubOnly == UNCHANGED <<engineVars, detectorVars, agentVars, storeVars, orchVars, busVars,
                       callVars>>

InitHub ==
    /\ InitEngine /\ InitDetector /\ InitAgent /\ InitStore /\ InitOrchestrator
    /\ services["s1"].rps < services["s2"].rps
    /\ (NewStreamHub \/ SlowClientHub)
    /\ InitBus

\* The bus delivers its next message to the handler of one subscription.
HubDeliver ==
    /\ hubSerial < BacklogLen + MaxHubMessages
    /\ \E kind \in HubKinds : hubStore(kind, hubSerial + 1)

NextHub ==
    \/ HubDeliver /\ HubOnly
    \/ (\E kind \in HubKinds : broadcast(kind)) /\ HubOnly
    \/ (\E c \in ClientIds : addClient(c)) /\ HubOnly
    \/ (\E c \in ClientIds : sendInitial(c)) /\ HubOnly
    \/ (\E c \in ClientIds : writeFrame(c)) /\ HubOnly
    \/ (\E c \in ClientIds : writeKeepalive(c)) /\ HubOnly
    \/ (\E c \in ClientIds : removeClient(c)) /\ HubOnly

SpecHub == InitHub /\ [][NextHub]_vars

(***************************************************************************)
(* SpecBus: one durable consumer.  Well-formed and malformed bytes are      *)
(* published on its subject; each delivery decodes the bytes and, if that   *)
(* succeeds, runs a handler that returns nil or an error.                   *)
(***************************************************************************)
BusOnly == UNCHANGED <<engineVars, detectorVars, agentVars, storeVars, orchVars, hubVars,
                       callVars>>

BusInputs == {marshal(1), marshal(2), junkBytes}

NextBus ==
    \/ /\ Len(busStream) < MaxBusMessages
       /\ \E data \in BusInputs : busPublish(data)
       /\ BusOnly
    \/ /\ Len(busLog) < MaxBusDeliveries
       /\ \E id \in busPending, handlerErr \in BOOLEAN : consume(id, handlerErr)
       /\ BusOnly

SpecBus == InitIdle /\ [][NextBus]_vars

(***************************************************************************)
(* SpecSpeed: the speed multiplier.  SetSpeed with every kind of float64    *)
(* (below, inside and above the range, and not-a-number), GetState,         *)
(* SetState and the Run loop.                                               *)
(***************************************************************************)
SpeedRequests == SpeedInputs \cup {NaN}

NextSpeed ==
    \/ RunTimer /\ EngineOnly
    \/ RunTick(ControlDraws) /\ EngineOnly
    \/ RunSnapshot /\ EngineOnly
    \/ RunPublish({TRUE}) /\ EngineOnly
    \/ GetState /\ EngineOnly
    \/ SetState("RUNNING") /\ EngineOnly
    \/ (\E m \in SpeedRequests : SetSpeed(m)) /\ EngineOnly

SpecSpeed == InitIdle /\ [][NextSpeed]_vars

(***************************************************************************)
(* SpecCommands: ApplyCommand with every action type (the five known ones   *)
(* and the unspecified one) on every target (a node, a service, an unknown  *)
(* id), its event published or not, between the steps of the Run loop.      *)
(***************************************************************************)
NextCommands ==
    \/ RunTimer /\ EngineOnly
    \/ RunTick(ControlDraws) /\ EngineOnly
    \/ RunSnapshot /\ EngineOnly
    \/ RunPublish({TRUE}) /\ EngineOnly
    \/ SetState("RUNNING") /\ EngineOnly
    \/ (\E actionType \in CommandTypes, targetID \in TargetIds, published \in BOOLEAN :
            ApplyCommand(actionType, targetID, published)) /\ EngineOnly

SpecCommands == Init /\ [][NextCommands]_vars

(***************************************************************************)
(* SpecDecisions: the decision table.  Incidents with every rule name (the  *)
(* six default rules and one without a case) and every severity are         *)
(* delivered to a decider whose cooldowns have expired and whose stores and *)
(* publisher work.                                                          *)
(***************************************************************************)
RuleNames == {DefaultRules[i].name : i \in RuleIndex} \cup {"disk_pressure"}

Severities == {"INFO", "WARNING", "CRITICAL", "FATAL"}

DecisionIncidents ==
    {[id |-> <<rule, severity>>, rule |-> rule, severity |-> severity,
      affected |-> <<"s1">>, tick |-> 3] : rule \in RuleNames, severity \in Severities}

NextDecisions ==
    /\ HandleIncident(DecisionIncidents, {cooldownDuration}, {0}, {"none"})
    /\ UNCHANGED <<engineVars, detectorVars, orchVars, hubVars, busVars, callVars>>

SpecDecisions == InitIdle /\ [][NextDecisions]_vars

(***************************************************************************)
(* SpecApprovals: concurrent approvals.  The decider proposes actions, two  *)
(* ApproveAction calls run concurrently (their repository and publisher     *)
(* calls interleave, and each may fail), and between their steps an         *)
(* operator rejects actions and an executor marks them completed through    *)
(* the repository.                                                          *)
(***************************************************************************)
ApprovalIds == {1, 2}

ApprovalsOnly == UNCHANGED <<engineVars, detectorVars, agentVars, hubVars, busVars>>

\* ActionsRepository.MarkCompleted, called by whatever executes the command.
Complete(id) ==
    /\ id \in DOMAIN actionsRepo
    /\ actionsRepo' = MarkCompleted(actionsRepo, id, "done")
    /\ UNCHANGED <<opsCommands, orchResp, approvals>>

NextApprovals ==
    \/ Propose(ProposedIncidents, {"none"})
    \/ (\E k \in CallIds, id \in ApprovalIds \cup {9}, err \in BOOLEAN :
            approveGetByID(k, id, err)) /\ ApprovalsOnly
    \/ (\E k \in CallIds, err \in BOOLEAN : approveUpdate(k, err)) /\ ApprovalsOnly
    \/ (\E k \in CallIds, err \in BOOLEAN : approvePublish(k, err)) /\ ApprovalsOnly
    \/ (\E id \in ApprovalIds : RejectAction(id, "operator", "none")) /\ OrchestratorOnly
    \/ (\E id \in ApprovalIds : Complete(id)) /\ ApprovalsOnly

SpecApprovals == InitIdle /\ [][NextApprovals]_vars

(***************************************************************************)
(* SpecScenarios: scenario selection.  LoadScenario is called with the      *)
(* three known names and with names that are not known (another name, the   *)
(* empty string, a known name in another case) and GetState is called,      *)
(* between the steps of the Run loop of a running simulation.               *)
(***************************************************************************)
ScenarioRequests == ScenarioInputs \cup {"", "High_Load"}

NextScenarios ==
    \/ RunTimer /\ EngineOnly
    \/ RunTick(TickDraws) /\ EngineOnly
    \/ RunSnapshot /\ EngineOnly
    \/ RunPublish(BOOLEAN) /\ EngineOnly
    \/ GetState /\ EngineOnly
    \/ SetState("RUNNING") /\ EngineOnly
    \/ (\E name \in ScenarioRequests : LoadScenario(name)) /\ EngineOnly

SpecScenarios == InitIdle /\ [][NextScenarios]_vars

(***************************************************************************)
(* SpecIngest: the metrics store fails.  Snapshots arrive one second apart, *)
(* so that every window fills and every rule is evaluated; the batch        *)
(* insert of a snapshot's metrics succeeds or fails; the incidents are      *)
(* published.                                                               *)
(***************************************************************************)
NextIngest == HandleMetrics({1}, {TRUE}, BOOLEAN)

SpecIngest == InitIdle /\ [][NextIngest]_vars

(***************************************************************************)
(* SpecNodeIncidents: from a node's metrics to a command.  The detector     *)
(* reads snapshots and publishes incidents; the decider is handed the       *)
(* incidents a node raised, as they stand on ops.incidents; a command with  *)
(* the type and the target of a published action is applied to the engine. *)
(***************************************************************************)
\* The incident the agent-service reads from one message of ops.incidents.
deliveredIncident(e) ==
    [id |-> ToString(<<e.key, e.tick>>), rule |-> e.rule, severity |-> e.severity,
     affected |-> e.affected, tick |-> e.tick]

NodeIncidents ==
    {deliveredIncident(opsIncidents[i]) :
        i \in {j \in DOMAIN opsIncidents : opsIncidents[j].affected[1] \in NodeIds}}

NextNodeIncidents ==
    \/ HandleMetrics({1}, {TRUE}, {FALSE})
    \/ /\ HandleIncident(NodeIncidents, {1}, {0}, {"none"})
       /\ UNCHANGED <<engineVars, detectorVars, orchVars, hubVars, busVars, callVars>>
    \/ /\ \E i \in DOMAIN opsActions :
             ApplyCommand(opsActions[i].action.actionType, opsActions[i].action.targetId, TRUE)
       /\ EngineOnly

SpecNodeIncidents == InitIdle /\ [][NextNodeIncidents]_vars

(***************************************************************************)
(* SpecCooldownKeys: one service under several rules.  The detector reads   *)
(* snapshots and publishes incidents; the decider is handed the incidents   *)
(* the services raised, a second or most of a cooldown apart.               *)
(***************************************************************************)
ServiceIncidents ==
    {deliveredIncident(opsIncidents[i]) :
        i \in {j \in DOMAIN opsIncidents : opsIncidents[j].affected[1] \in ServiceIds}}

CooldownGaps == {1, cooldownDuration - 1}

NextCooldownKeys ==
    \/ HandleMetrics({1}, {TRUE}, {FALSE})
    \/ /\ HandleIncident(ServiceIncidents, CooldownGaps, {0}, {"none"})
       /\ UNCHANGED <<engineVars, detectorVars, orchVars, hubVars, busVars, callVars>>

SpecCooldownKeys == InitIdle /\ [][NextCooldownKeys]_vars

(***************************************************************************)
(* SpecDrain: a node drained during a long run.  The Run loop ticks long    *)
(* enough for a node's cpu to climb past the thresholds of its status, and  *)
(* DRAIN_NODE is applied to a node between two steps of the loop.           *)
(***************************************************************************)
DrainDraws == {d \in TickDraws : d.dir # 0 /\ d.dir99 = d.dir /\ d.load = 0 /\ d.cascade = {}}

NextDrain ==
    \/ RunTimer /\ EngineOnly
    \/ RunTickUntil(DrainDraws, MaxDrainTick) /\ EngineOnly
    \/ RunSnapshot /\ EngineOnly
    \/ RunPublish({TRUE}) /\ EngineOnly
    \/ SetState("RUNNING") /\ EngineOnly
    \/ (\E n \in NodeIds : ApplyCommand("DRAIN_NODE", n, TRUE)) /\ EngineOnly

SpecDrain == Init /\ [][NextDrain]_vars

(***************************************************************************)
(* Claims about the engine.                                                *)
(***************************************************************************)
InPercent(v) == 0 <= v /\ v <= 1000

SnapshotInRange(msg) ==
    /\ \A s \in ServiceIds :
          msg.services[s].p99 >= msg.services[s].p50 /\ InPercent(msg.services[s].err)
    /\ \A n \in NodeIds :
          InPercent(msg.nodes[n].cpu) /\ InPercent(msg.nodes[n].mem)
              /\ InPercent(msg.nodes[n].disk)

\* C1: every MetricSnapshot published on sim.metrics has, for every service,
\* latency_p99 >= latency_p50 and error_rate in [0,100], and for every node
\* cpu, memory and disk usage in [0,100].
C1_PublishedSnapshotInRange ==
    simMetrics.count > 0 => SnapshotInRange(simMetrics.last)

\* C2: tick_id never decreases in any step; a tick executed by the Run loop
\* increases it by exactly 1; each snapshot that appears on sim.metrics
\* carries a tick_id strictly greater than the one published before it.
C2_TickMonotone ==
    [][/\ tickID' >= tickID
       /\ (runPc = "checked" /\ runPc' = "ticked") => tickID' = tickID + 1
       /\ simMetrics'.count > simMetrics.count
             => simMetrics'.last.tick > simMetrics.last.tick]_vars

\* Two snapshots were published one tick apart, after the run state was
\* paused and resumed, the speed and the scenario changed and a command applied.
C2_Witness ==
    /\ simMetrics.count = 2
    /\ simMetrics.prevTick = 1
    /\ simMetrics.last.tick = 2
    /\ simEvents.count > 0
    /\ speedMult = 100
    /\ scenario = "high_load"
    /\ simState = "PAUSED"

(***************************************************************************)
(* Claims about the detector.                                              *)
(***************************************************************************)
IncidentsOf(k) == {i \in 1..Len(opsIncidents) : opsIncidents[i].key = k}

\* C3: for each key (entity_type, entity_id, rule) at most one incident is
\* open at a time: once an incident was emitted for the key, no further one
\* is emitted until the key's latch was cleared by an evaluation whose breach
\* ratio is below 0.3; an open incident's key has its latch set.
C3_OneOpenIncidentPerKey ==
    \A k \in Keys :
        /\ openIncidents[k] <= 1
        /\ openIncidents[k] = 1 => k \in activeIncidents

\* A key whose incident is open was judged again with a ratio above 0.7 and
\* nothing was emitted, while another key's incident was raised and cleared.
C3_Witness ==
    /\ \E k \in Keys :
          /\ openIncidents[k] = 1
          /\ evalLog[k].evaluated
          /\ 10 * evalLog[k].count > 7 * evalLog[k].size
          /\ ~evalLog[k].emitted
          /\ Cardinality(IncidentsOf(k)) = 1
    /\ \E k \in Keys :
          /\ IncidentsOf(k) # {}
          /\ k \notin activeIncidents

\* C4: the latch of a key goes from inactive to active only on an evaluation
\* with breach ratio > 0.7 and from active to inactive only on one with
\* breach ratio < 0.3; an evaluation with the ratio in [0.3, 0.7] leaves the
\* latch as it was and emits nothing; a key all of whose evaluations were in
\* [0.3, 0.7] has no incident.
C4_Hysteresis ==
    /\ [][\A k \in Keys :
            /\ (k \notin activeIncidents /\ k \in activeIncidents')
                  => evalLog'[k].evaluated /\ 10 * evalLog'[k].count > 7 * evalLog'[k].size
            /\ (k \in activeIncidents /\ k \notin activeIncidents')
                  => evalLog'[k].evaluated /\ 10 * evalLog'[k].count < 3 * evalLog'[k].size
            /\ (/\ detSamples' # detSamples
                /\ evalLog'[k].evaluated
                /\ 10 * evalLog'[k].count >= 3 * evalLog'[k].size
                /\ 10 * evalLog'[k].count <= 7 * evalLog'[k].size)
                  => /\ (k \in activeIncidents') = (k \in activeIncidents)
                     /\ ~evalLog'[k].emitted
                     /\ Len(opsIncidents') = Len(opsIncidents)
                            \/ \A i \in Len(opsIncidents) + 1 .. Len(opsIncidents') :
                                  opsIncidents'[i].key # k]_vars
    /\ [](\A k \in Keys : inBand[k] => IncidentsOf(k) = {})

\* One key's latch was set and then cleared by an evaluation below 0.3, while
\* another key's latch, set too, was held by an evaluation inside the band.
C4_Witness ==
    /\ \E k \in Keys :
          /\ k \in activeIncidents
          /\ openIncidents[k] = 1
          /\ evalLog[k].evaluated
          /\ 10 * evalLog[k].count >= 3 * evalLog[k].size
          /\ 10 * evalLog[k].count <= 7 * evalLog[k].size
    /\ \E k \in Keys :
          /\ k \notin activeIncidents
          /\ IncidentsOf(k) # {}
          /\ evalLog[k].evaluated
          /\ 10 * evalLog[k].count < 3 * evalLog[k].size

(***************************************************************************)
(* Claims about the decider.                                               *)
(***************************************************************************)
IncidentById(id) == CHOOSE incident \in DeciderIncidents : incident.id = id

PublishedKey(i) == actionKey(IncidentById(opsActions[i].action.incidentId))

\* C5: any two actions published on ops.actions for the same
\* (rule_name, affected_ids[0]) pair are published at least cooldown_duration
\* (30 s) apart.
C5_CooldownSeparation ==
    \A i, j \in 1..Len(opsActions) :
        (i < j /\ PublishedKey(i) = PublishedKey(j))
            => opsActions[j].at - opsActions[i].at >= cooldownDuration

\* Two actions of one key were published, from two incidents, exactly the
\* cooldown apart.
C5_Witness ==
    /\ Len(opsActions) = 2
    /\ PublishedKey(1) = PublishedKey(2)
    /\ opsActions[1].action.incidentId # opsActions[2].action.incidentId
    /\ opsActions[2].at - opsActions[1].at = cooldownDuration

\* C6: every action published by the decider has status PENDING,
\* proposed_at_tick equal to its incident's detected_at.tick_id and target_id
\* equal to its incident's affected_ids[0].
C6_PublishedActionShape ==
    \A i \in 1..Len(opsActions) :
        LET action == opsActions[i].action
            incident == IncidentById(action.incidentId)
        IN  /\ action.status = "PENDING"
            /\ action.proposedAtTick = incident.tick
            /\ action.targetId = incident.affected[1]

\* Actions were published for an incident with two affected ids and for one
\* with a single id, detected at different ticks.
C6_Witness ==
    /\ \E i \in 1..Len(opsActions) : opsActions[i].action.incidentId = "i2"
    /\ \E i \in 1..Len(opsActions) : opsActions[i].action.incidentId = "i3"

(***************************************************************************)
(* Claims about the approval surface.                                      *)
(***************************************************************************)
ApproveResponded == orchResp'.method = "ApproveAction"

\* C7: ApproveAction on an id that is not in the actions repository publishes
\* no command on ops.commands and changes no stored action, and returns
\* NOT_FOUND (the lookup having answered; INTERNAL when the lookup itself
\* failed).
C7_ApproveUnknown ==
    [][(ApproveResponded /\ orchResp'.id \notin DOMAIN actionsRepo)
          => /\ opsCommands' = opsCommands
             /\ actionsRepo' = actionsRepo
             /\ orchResp'.fault # "get" => orchResp'.code = "NOT_FOUND"
             /\ orchResp'.fault = "get" => orchResp'.code = "INTERNAL"]_vars

\* ApproveAction answered NOT_FOUND for the id of an action that was
\* published but not stored, while another action is stored and no command
\* was published.
C7_Witness ==
    /\ orchResp.method = "ApproveAction"
    /\ orchResp.code = "NOT_FOUND"
    /\ orchResp.id \notin DOMAIN actionsRepo
    /\ \E i \in 1..Len(opsActions) : opsActions[i].action.id = orchResp.id
    /\ DOMAIN actionsRepo # {}
    /\ opsCommands = <<>>

\* C8: a successful ApproveAction(id) on a PENDING action leaves the action
\* APPROVED and appends exactly one command to ops.commands, whose action_id
\* is id, whose action_type, target_id and parameters equal the stored
\* action's and whose target_tick_id equals its proposed_at_tick.
C8_ApprovePublishesCommand ==
    [][(ApproveResponded /\ orchResp'.code = "OK"
            /\ GetByID(actionsRepo, orchResp'.id).status = "PENDING")
          => LET id == orchResp'.id
                 stored == GetByID(actionsRepo', id)
                 cmd == opsCommands'[Len(opsCommands')]
             IN  /\ stored.status = "APPROVED"
                 /\ Len(opsCommands') = Len(opsCommands) + 1
                 /\ SubSeq(opsCommands', 1, Len(opsCommands)) = opsCommands
                 /\ cmd.actionId = id
                 /\ cmd.actionType = stored.actionType
                 /\ cmd.targetId = stored.targetId
                 /\ cmd.parameters = stored.parameters
                 /\ cmd.targetTickId = stored.proposedAtTick
                 /\ \A other \in DOMAIN actionsRepo \ {id} :
                        actionsRepo'[other] = actionsRepo[other]]_vars

\* The PENDING action proposed for incident i2 (tick 5, target s1) was
\* approved: it is APPROVED and its command is the only one on ops.commands.
C8_Witness ==
    /\ orchResp.method = "ApproveAction"
    /\ orchResp.code = "OK"
    /\ orchResp.read = "PENDING"
    /\ Len(opsCommands) = 1
    /\ opsCommands[1].actionId = orchResp.id
    /\ opsCommands[1].targetTickId = 5
    /\ GetByID(actionsRepo, orchResp.id).status = "APPROVED"
    /\ GetByID(actionsRepo, orchResp.id).incidentId = "i2"

LegalMoves ==
    {<<"PENDING", "APPROVED">>, <<"APPROVED", "EXECUTING">>, <<"EXECUTING", "COMPLETED">>,
     <<"EXECUTING", "FAILED">>, <<"PENDING", "REJECTED">>}

\* C9: a stored action's status only moves along PENDING -> APPROVED ->
\* EXECUTING -> {COMPLETED, FAILED} or PENDING -> REJECTED: a REJECTED action
\* never becomes APPROVED and an APPROVED action never becomes REJECTED.
C9_StatusMonotone ==
    [][\A id \in DOMAIN actionsRepo :
            \/ actionsRepo'[id].status = actionsRepo[id].status
            \/ <<actionsRepo[id].status, actionsRepo'[id].status>> \in LegalMoves]_vars

(***************************************************************************)
(* Claims about the closed loop.                                           *)
(***************************************************************************)
\* C10: every ApplyActionCommand published on ops.commands by a successful
\* ApproveAction is eventually applied by the engine through ApplyCommand:
\* once a command is on ops.commands, a simulation event of an applied
\* command eventually follows.
C10_CommandEventuallyApplied ==
    (Len(opsCommands) > 0) ~> (simEvents.count > 0)

(***************************************************************************)
(* Claims about the stream hub.                                            *)
(***************************************************************************)
\* A broadcast of the message of kind `kind` is the step that takes it from
\* hubPending.
Broadcasts(kind) == hubPending[kind] # NoPayload /\ hubPending'[kind] = NoPayload

C12_FirstFrameIsLatestSnapshot ==
    /\ [][\A c \in ClientIds :
            (hubClients[c].pc = "registered" /\ hubClients'[c].pc = "streaming"
                /\ hubLatest.metrics # NoPayload)
            => /\ hubClients[c].written = <<>>
               /\ hubClients'[c].written = <<hubMessage("metrics", hubLatest.metrics)>>
               /\ hubClients'[c].ch = hubClients[c].ch]_vars
    /\ [](\A c \in ClientIds :
            hubClients[c].pc \in {None, "registered"} => hubClients[c].written = <<>>)

\* The second client connected after two snapshots, while a message was
\* already in its buffer: it was written the latest snapshot first and the
\* buffered frame after it.
C12_Witness ==
    LET cl == hubClients["c2"]
    IN  /\ cl.pc = "streaming"
        /\ cl.seen.metrics > BacklogLen + 1
        /\ Len(cl.written) = 2
        /\ cl.written[1] = hubMessage("metrics", cl.seen.metrics)
        /\ cl.written[2].type = "metrics"
        /\ cl.written[2].payload = cl.seen.metrics

\* C13: on connect the hub writes the client the last message of each kind
\* it has cached (snapshot, incident, action), before anything else.
C13_ServesLatestOfEachKind ==
    \A c \in ClientIds :
        hubClients[c].pc \in {"streaming", "closed"} =>
            LET cl == hubClients[c]
                cached == {kind \in HubKinds : cl.seen[kind] # NoPayload}
            IN  \A kind \in cached :
                    \E i \in 1..Cardinality(cached) :
                        /\ i <= Len(cl.written)
                        /\ cl.written[i] = hubMessage(kind, cl.seen[kind])

(***************************************************************************)
(* Claims about the speed multiplier and ApplyCommand.                     *)
(***************************************************************************)
\* The clamp of a float64 into [0.1, 10.0].
InSpeedRange(v) == v # NaN /\ 1 <= v /\ v <= 100

\* C14: SetSpeed(x) stores and returns x clamped into [0.1, 10.0], a
\* following GetState returns the stored multiplier, and the multiplier is
\* within [0.1, 10.0] in every reachable state.
C14_SpeedClamped ==
    /\ [][ctlResp'.method = "SetSpeed" =>
            /\ InSpeedRange(ctlResp'.speed)
            /\ ctlResp'.speed = speedMult'
            /\ InSpeedRange(ctlResp'.request) => ctlResp'.speed = ctlResp'.request]_vars
    /\ [](ctlResp.method = "GetState" => ctlResp.speed = speedMult)
    /\ [](InSpeedRange(speedMult))

\* An ApplyCommand step, with what it was called with in ctlResp'.
Applies == simEvents'.count = simEvents.count + 1 /\ ctlResp'.method = "ApplyCommand"

\* C15: SCALE_DOWN on a service with one replica changes no node and no
\* service; on a service with more than one replica it takes exactly one
\* replica away, sets desired_replicas to the new count and changes nothing
\* else.
C15_ScaleDownFloor ==
    [][(Applies /\ ctlResp'.actionType = "SCALE_DOWN" /\ ctlResp'.target \in ServiceIds)
        => LET t == ctlResp'.target
           IN  IF services[t].replicas = 1
               THEN nodes' = nodes /\ services' = services
               ELSE /\ nodes' = nodes
                    /\ services' = [services EXCEPT ![t] =
                            [@ EXCEPT !.replicas = services[t].replicas - 1,
                                      !.desired = services[t].replicas - 1]]]_vars

\* SCALE_DOWN was applied to a service that has one replica: the event
\* carries no type and the service still has its replica.
C15_Witness ==
    /\ ctlResp.method = "ApplyCommand"
    /\ ctlResp.actionType = "SCALE_DOWN"
    /\ ctlResp.target \in ServiceIds
    /\ ctlResp.eventType = ""
    /\ services[ctlResp.target].replicas = 1
    /\ simEvents.count = 1

\* C16: ApplyCommand with a target that is no node and no service, or with
\* an action type that is none of the five, changes no node and no service
\* and its event has an empty event_type, whatever the action type is.
C16_UnknownIsNoOp ==
    [][(Applies /\ (ctlResp'.target \notin NodeIds \cup ServiceIds
                        \/ ctlResp'.actionType \notin ActionTypes))
        => /\ nodes' = nodes
           /\ services' = services
           /\ ctlResp'.eventType = ""
           /\ simEvents'.last.target = ctlResp'.target => simEvents'.last.eventType = ""]_vars

(***************************************************************************)
(* Claims about the decider's table, cooldown and redelivery.              *)
(***************************************************************************)
\* The decision table as the specification gives it.
TableAction(rule, severity) ==
    CASE rule \in {"high_error_rate", "critical_error_rate"} -> "RESTART_SERVICE"
      [] rule = "high_cpu_usage" /\ severity = "WARNING" -> "REBALANCE_TRAFFIC"
      [] rule = "critical_cpu_usage" /\ severity = "CRITICAL" -> "SCALE_UP"
      [] rule = "high_memory_usage" -> "RESTART_SERVICE"
      [] rule = "high_latency" -> "SCALE_UP"
      [] OTHER -> None

\* A delivery to ProcessIncident, with its arguments in agentLast'.
Delivers == agentDeliveries' = agentDeliveries + 1

\* C17: an incident whose (rule, severity) is a row of the decision table
\* gets an action of the row's type, and every other incident gets no
\* action (none stored, none published).
C17_DecisionTable ==
    [][Delivers =>
        LET incident == agentLast'.incident
            type == TableAction(incident.rule, incident.severity)
        IN  IF type = None
            THEN opsActions' = opsActions /\ actionsRepo' = actionsRepo
            ELSE /\ Len(opsActions') = Len(opsActions) + 1
                 /\ opsActions'[Len(opsActions')].action.actionType = type
                 /\ opsActions'[Len(opsActions')].action.incidentId = incident.id]_vars

\* C18: an incident delivered while its (rule, target) key is inside the
\* cooldown is stored in the incidents repository (when the store answers)
\* and produces nothing else: no action row, no published action, no new
\* cooldown.
C18_CooldownDropsAfterPersistence ==
    [][(Delivers /\ agentLast'.incident.affected # <<>>
            /\ actionKey(agentLast'.incident) \in DOMAIN recentActions
            /\ agentLast'.now - recentActions[actionKey(agentLast'.incident)] < 30)
        => /\ actionsRepo' = actionsRepo
           /\ opsActions' = opsActions
           /\ recentActions' = recentActions
           /\ deciderResult' = "nil"
           /\ agentLast'.fault # "storeIncident" => agentLast'.incident.id \in incidentsRepo']_vars

\* Two distinct incidents on the key (high_error_rate, s1) were delivered
\* less than 30 s apart: both are stored, one action was published and
\* stored.
C18_Witness ==
    /\ incidentsRepo = {"i1", "i2"}
    /\ agentDeliveries = 2
    /\ agentLast.now - recentActions[<<"high_error_rate", "s1">>] < cooldownDuration
    /\ Len(opsActions) = 1
    /\ Cardinality(DOMAIN actionsRepo) = 1
    /\ agentLast.incident.id # opsActions[1].action.incidentId

\* C19: however often an incident is delivered, at most one action row is
\* stored for it and at most one action is published for it.
C19_RedeliveryIdempotent ==
    \A incident \in DeciderIncidents :
        /\ Cardinality({id \in DOMAIN actionsRepo :
                            actionsRepo[id].incidentId = incident.id}) <= 1
        /\ Cardinality({i \in 1..Len(opsActions) :
                            opsActions[i].action.incidentId = incident.id}) <= 1

(***************************************************************************)
(* Claims about the bus subscriber.                                        *)
(***************************************************************************)
\* C20: a delivery whose bytes decode and whose handler returns nil acks the
\* message, which leaves the pending set; a delivery whose bytes do not
\* decode, or whose handler returns an error, nacks the message, which is
\* not acked and stays pending and so can be delivered again; bytes that do
\* not decode are never acked.
C20_AckOnSuccessNackOnError ==
    /\ [][Len(busLog') = Len(busLog) + 1 =>
            LET r == busLog'[Len(busLog')]
                ok == ~unmarshal(busStream[r.id]).err /\ ~r.handlerErr
            IN  IF ok
                THEN r.verdict = "ack" /\ r.id \in busAcked' /\ r.id \notin busPending'
                ELSE r.verdict = "nak" /\ r.id \notin busAcked' /\ r.id \in busPending']_vars
    /\ [](\A id \in busPending, e \in BOOLEAN :
            Len(busLog) < MaxBusDeliveries => ENABLED (consume(id, e) /\ BusOnly))
    /\ [](\A id \in busAcked : ~unmarshal(busStream[id]).err)
    /\ [](\A i \in 1..Len(busLog) :
            unmarshal(busStream[busLog[i].id]).err => busLog[i].verdict = "nak")

\* Malformed bytes were delivered twice and nacked both times, and a
\* well-formed message was nacked on a handler error and acked when
\* delivered again.
C20_Witness ==
    /\ Len(busLog) = 4
    /\ \E i, j \in 1..4 :
          /\ i < j
          /\ busLog[i].id = busLog[j].id
          /\ unmarshal(busStream[busLog[i].id]).err
          /\ busLog[i].verdict = "nak" /\ busLog[j].verdict = "nak"
    /\ \E i, j \in 1..4 :
          /\ i < j
          /\ busLog[i].id = busLog[j].id
          /\ busLog[i].handled /\ busLog[i].handlerErr /\ busLog[i].verdict = "nak"
          /\ busLog[j].verdict = "ack"
          /\ busLog[j].id \in busAcked

(***************************************************************************)
(* Claims about the approval surface.                                      *)
(***************************************************************************)
commandsFor(id) == Cardinality({i \in 1..Len(opsCommands) : opsCommands[i].actionId = id})

succeeded(id) ==
    {k \in CallIds : approvals[k].id = id /\ approvals[k].pc = "done" /\ approvals[k].code = "OK"}

\* C21: however the steps of concurrent ApproveAction calls interleave, a
\* call that found the action sets its status to APPROVED whatever the
\* status was (PENDING, APPROVED, REJECTED or COMPLETED) and touches no other
\* row, a call succeeds only after that write and by publishing exactly one
\* command built from the row it read, and so the commands published for an
\* action are as many as the calls that succeeded on it: approving twice
\* leaves APPROVED and publishes the command twice.
C21_ApproveUnconditional ==
    /\ [][\A k \in CallIds :
            approvals[k].pc = "read" /\ approvals'[k].pc = "updated" =>
                /\ approvals[k].id \in DOMAIN actionsRepo
                /\ actionsRepo' = [actionsRepo EXCEPT ![approvals[k].id].status = "APPROVED",
                                                      ![approvals[k].id].resultMessage = ""]]_vars
    /\ [][\A k \in CallIds :
            approvals'[k].code = "OK" /\ approvals[k].code # "OK" =>
                /\ approvals[k].pc = "updated"
                /\ opsCommands' = Append(opsCommands,
                                         approveCommand(approvals[k].id, approvals[k].read))
                /\ actionsRepo' = actionsRepo]_vars
    /\ [](\A id \in ApprovalIds \cup {9} : commandsFor(id) = Cardinality(succeeded(id)))

\* Two calls succeeded on the same action: one found it COMPLETED, the other
\* found it APPROVED; it is APPROVED and its command was published twice.
C21_Witness ==
    \E id \in DOMAIN actionsRepo :
        /\ succeeded(id) = CallIds
        /\ {approvals[k].read.status : k \in CallIds} = {"COMPLETED", "APPROVED"}
        /\ actionsRepo[id].status = "APPROVED"
        /\ commandsFor(id) = 2

(***************************************************************************)
(* Claims about the decider's failures.                                    *)
(***************************************************************************)
\* The delivery of this step reaches storeAction: its incident has a target,
\* no cooldown runs for its key and decideAction returns an action.
Proposes ==
    /\ Delivers
    /\ Len(agentLast'.incident.affected) > 0
    /\ ~cooldownActive(recentActions, actionKey(agentLast'.incident), agentLast'.now)
    /\ decideAction(agentLast'.incident, nextActionId) # NoAction

\* C22: when storeAction fails the action is published on ops.actions all
\* the same (with no row stored) and ProcessIncident returns nil; when
\* PublishAction fails ProcessIncident returns an error, nothing is
\* published and no cooldown starts, while the row stays stored.
C22_StoreFailureTolerated ==
    [][Proposes =>
         LET action == decideAction(agentLast'.incident, nextActionId)
         IN  /\ agentLast'.fault = "storeAction" =>
                   /\ actionsRepo' = actionsRepo
                   /\ Len(opsActions') = Len(opsActions) + 1
                   /\ opsActions'[Len(opsActions')].action = action
                   /\ deciderResult' = "nil"
                   /\ actionKey(agentLast'.incident) \in DOMAIN recentActions'
             /\ agentLast'.fault = "publish" =>
                   /\ deciderResult' = "error"
                   /\ opsActions' = opsActions
                   /\ recentActions' = recentActions
                   /\ actionsRepo' = actionsCreate(actionsRepo, actionRow(action))]_vars

\* A delivery failed to publish and returned the error, after an earlier one
\* had published an action whose row could not be stored.
C22_Witness ==
    /\ agentLast.fault = "publish"
    /\ deciderResult = "error"
    /\ Len(opsActions) = 1
    /\ opsActions[1].action.id \notin DOMAIN actionsRepo
    /\ actionsRepo # <<>>

\* C23: a RejectAction call that succeeds on an existing action sets its
\* status to REJECTED and its result_message to the reason of the request
\* and changes no other row; no RejectAction call, successful or not,
\* publishes a command on ops.commands.
C23_RejectStoresReason ==
    [][orchResp'.method = "RejectAction" /\ orchResp' # orchResp =>
         /\ opsCommands' = opsCommands
         /\ orchResp'.code = "OK" /\ orchResp'.id \in DOMAIN actionsRepo =>
               actionsRepo' = [actionsRepo EXCEPT
                                  ![orchResp'.id].status = "REJECTED",
                                  ![orchResp'.id].resultMessage = orchResp'.reason]
         /\ orchResp'.code # "OK" => actionsRepo' = actionsRepo]_vars

\* An action that had been approved, and its command published, was
\* rejected with a reason.
C23_Witness ==
    /\ orchResp.method = "RejectAction"
    /\ orchResp.code = "OK"
    /\ orchResp.id \in DOMAIN actionsRepo
    /\ actionsRepo[orchResp.id].status = "REJECTED"
    /\ actionsRepo[orchResp.id].resultMessage = "operator"
    /\ \E i \in 1..Len(opsCommands) : opsCommands[i].actionId = orchResp.id

(***************************************************************************)
(* Claims about the control surface.                                       *)
(***************************************************************************)
\* C24: a LoadScenario call with a name outside {normal, high_load,
\* cascade_failure} answers success = false and changes nothing of the
\* engine state, the active scenario included; a call with one of the three
\* names answers success = true and makes the name the active scenario,
\* changing nothing else; and GetState returns the active scenario.
C24_LoadScenarioValidates ==
    /\ [][ctlResp'.method = "LoadScenario" /\ ctlResp' # ctlResp =>
            /\ UNCHANGED <<nodes, services, tickID, simTimeUnixMs, speedMult, simState,
                           runPc, snapshot, simMetrics, simEvents>>
            /\ IF ctlResp'.name \in {"normal", "high_load", "cascade_failure"}
               THEN ctlResp'.success /\ scenario' = ctlResp'.name
               ELSE ~ctlResp'.success /\ scenario' = scenario]_vars
    /\ [](ctlResp.method = "GetState" => ctlResp.scenario = scenario)

\* After cascade_failure had been loaded and a tick had run, the name chaos
\* was refused and cascade_failure is still the active scenario.
C24_Witness ==
    /\ ctlResp.method = "LoadScenario"
    /\ ctlResp.name = "chaos"
    /\ ~ctlResp.success
    /\ scenario = "cascade_failure"
    /\ tickID > 0

(***************************************************************************)
(* Claims about the Run loop.                                              *)
(***************************************************************************)
\* C25: snapshot publication and command application are serialized: from
\* the moment a snapshot is taken until its publication completes no node
\* and no service is modified, and the snapshot that is published is the
\* one that was taken, so it never shows a partially applied command.
C25_PublicationSerialized ==
    /\ [][runPc = "snapped" => nodes' = nodes /\ services' = services]_vars
    /\ [][simMetrics'.count = simMetrics.count + 1 =>
            /\ simMetrics'.last.nodes = snapshot.nodes
            /\ simMetrics'.last.services = snapshot.services]_vars

\* C26: while the run state is not RUNNING no step changes tick_id or
\* sim_time or publishes a snapshot, and no step other than an applied
\* command changes a node or a service, also when SetState is called
\* between two steps of the loop; and whenever the state is RUNNING and the
\* loop waits for its timer, the next firing passes the run-state check.
C26_TicksOnlyWhenRunning ==
    /\ [][simState # "RUNNING" =>
            /\ tickID' = tickID
            /\ simTimeUnixMs' = simTimeUnixMs
            /\ simMetrics' = simMetrics
            /\ simEvents'.count = simEvents.count =>
                  nodes' = nodes /\ services' = services]_vars
    /\ [][runPc = "timer" /\ runPc' # "timer" => simState = "RUNNING"]_vars

\* C28: in every published snapshot each service's health is CRITICAL if
\* its error rate is above 10, DEGRADED if above 5, else HEALTHY, and each
\* node that is not OFFLINE is DEGRADED if its cpu is above 80 or its memory
\* above 85, else HEALTHY.
C28_DerivedFieldsAgree ==
    simMetrics.count > 0 =>
        /\ \A s \in ServiceIds :
              simMetrics.last.services[s].health =
                  (IF simMetrics.last.services[s].err > 100 THEN "CRITICAL"
                   ELSE IF simMetrics.last.services[s].err > 50 THEN "DEGRADED"
                   ELSE "HEALTHY")
        /\ \A n \in NodeIds :
              simMetrics.last.nodes[n].status # "OFFLINE" =>
                  simMetrics.last.nodes[n].status =
                      (IF simMetrics.last.nodes[n].cpu > 800
                             \/ simMetrics.last.nodes[n].mem > 850
                       THEN "DEGRADED" ELSE "HEALTHY")

(***************************************************************************)
(* Claims about the detector's windows.                                    *)
(***************************************************************************)
\* C27: after a snapshot is processed at time now, the window of every key
\* of an entity in the snapshot holds exactly the samples, in arrival order
\* and the new one included, whose timestamp is later than now minus the
\* rule's window_seconds; a key whose window then holds fewer than 3
\* samples is not evaluated and no incident is emitted for it.
C27_WindowHoldsRecent ==
    /\ [][detSamples' = detSamples + 1 =>
            \E snap \in DetectorSnapshots(detSamples') :
                \A k \in Keys :
                    LET there == IF k[1] = "node" THEN k[2] \in DOMAIN snap.nodes
                                 ELSE k[2] \in DOMAIN snap.services
                        rule == DefaultRules[k[3]]
                        value == IF k[1] = "node"
                                 THEN nodeMetrics(snap.nodes[k[2]])[rule.metric]
                                 ELSE serviceMetrics(snap.services[k[2]])[rule.metric]
                        recent(e) == e.ts > detNow' - rule.window
                    IN  IF there
                        THEN /\ windows'[k] =
                                   SelectSeq(Append(windows[k], [value |-> value, ts |-> detNow']),
                                             recent)
                             /\ Len(windows'[k]) < 3 =>
                                   /\ ~evalLog'[k].evaluated
                                   /\ \A i \in Len(opsIncidents) + 1 .. Len(opsIncidents') :
                                         opsIncidents'[i].key # k
                        ELSE windows'[k] = windows[k]]_vars
    /\ [](\A k \in Keys : \A i \in 1..Len(windows[k]) :
            /\ windows[k][i].ts > detNow - DefaultRules[k[3]].window
            /\ \A j \in 1..Len(windows[k]) : i < j => windows[k][i].ts < windows[k][j].ts)

\* A sample of a 60 s window was evicted exactly 60 s after it arrived,
\* leaving three samples that were evaluated, while a 15 s window holds a
\* single sample and was not evaluated.
C27_Witness ==
    /\ \E k \in Keys :
          /\ DefaultRules[k[3]].window = 60
          /\ Len(windows[k]) = 3
          /\ windows[k][1].ts = detNow - 40
          /\ detSamples = 4
          /\ evalLog[k].evaluated
    /\ \E k \in Keys :
          /\ DefaultRules[k[3]].window = 15
          /\ Len(windows[k]) = 1
          /\ ~evalLog[k].evaluated

(***************************************************************************)
(* Claims about single commands and incidents.                             *)
(***************************************************************************)
\* C29: ApplyCommand(RESTART_SERVICE, target) on an existing service sets
\* the service's health to HEALTHY, its error rate to 0.1, its p50 to 5 and
\* its p99 to 20 and leaves its other fields, every other service, every
\* node, tick_id and sim_time unchanged; the event it returns, and publishes
\* unless the bus fails, has event_type service_restarted and that target.
C29_RestartResets ==
    [][(Applies /\ ctlResp'.actionType = "RESTART_SERVICE" /\ ctlResp'.target \in ServiceIds)
        => LET t == ctlResp'.target
               event == [target |-> t, eventType |-> "service_restarted"]
           IN  /\ services' = [services EXCEPT ![t] =
                      [@ EXCEPT !.health = "HEALTHY", !.err = 1, !.p50 = 50, !.p99 = 200]]
               /\ nodes' = nodes
               /\ tickID' = tickID
               /\ simTimeUnixMs' = simTimeUnixMs
               /\ ctlResp'.eventType = "service_restarted"
               /\ simEvents'.last \in {event, simEvents.last}]_vars

\* After a tick, the service with the higher latencies was restarted and
\* the event was published: its latencies are the restart's, the other
\* service is as the tick left it.
C29_Witness ==
    /\ ctlResp.method = "ApplyCommand"
    /\ ctlResp.actionType = "RESTART_SERVICE"
    /\ tickID > 0
    /\ simEvents.last = [target |-> ctlResp.target, eventType |-> "service_restarted"]
    /\ \E t \in ServiceIds :
          /\ ctlResp.target = t
          /\ services[t].p50 = 50 /\ services[t].p99 = 200 /\ services[t].err = 1
          /\ services[t].rps > 4000
          /\ \E o \in ServiceIds : services[o].p50 # 50

\* C30: ProcessIncident on an incident whose affected_ids is empty does not
\* crash the handler: it returns, proposes no action (no row is stored) and
\* publishes nothing on ops.actions.
C30_EmptyTargetsGuarded ==
    [][(Delivers /\ Len(agentLast'.incident.affected) = 0) =>
          /\ agentState' = "up"
          /\ deciderResult' # "panic"
          /\ actionsRepo' = actionsRepo
          /\ opsActions' = opsActions]_vars

(***************************************************************************)
(* Claims about the detector's failures.                                   *)
(***************************************************************************)
ratioAbove(w, rule) ==
    10 * Cardinality({i \in 1..Len(w) : Evaluate(rule, w[i].value)}) > 7 * Len(w)

\* The incidents the step publishes.
NewIncidents == {opsIncidents'[i].key : i \in Len(opsIncidents) + 1 .. Len(opsIncidents')}

\* C31: when the batch insert of a snapshot's metrics fails (no row of the
\* snapshot is stored), ProcessSnapshot has still appended the sample to the
\* window of every rule of every node and service of the snapshot, has
\* evaluated every window that holds 3 samples, has emitted an incident for
\* exactly the keys whose ratio is above 0.7 and whose latch was not set,
\* and returns nil.
C31_InsertFailureTolerated ==
    [][detSamples' = detSamples + 1 /\ metricsRepo' = metricsRepo =>
          /\ detResult' = "nil"
          /\ \A k \in Keys : k[2] \in {"n1", "s1"} =>
                /\ windows'[k] # <<>>
                /\ windows'[k][Len(windows'[k])].ts = detNow'
                /\ evalLog'[k].evaluated = (Len(windows'[k]) >= 3)
                /\ (k \in NewIncidents) =
                      (/\ Len(windows'[k]) >= 3
                       /\ ratioAbove(windows'[k], DefaultRules[k[3]])
                       /\ k \notin activeIncidents)]_vars

\* The insert of the third snapshot failed (the two before are stored) and
\* the snapshot raised an incident.
C31_Witness ==
    /\ detSamples = 3
    /\ \E row \in metricsRepo : row[1] = 2
    /\ ~\E row \in metricsRepo : row[1] = 3
    /\ detResult = "nil"
    /\ \E i \in 1..Len(opsIncidents) : opsIncidents[i].tick = 3

(***************************************************************************)
(* Claims about the hub's interleavings.                                   *)
(***************************************************************************)
\* C32: the metrics frames written to one client, the initial frame written
\* on connect included, are in strictly increasing snapshot order: none is
\* written twice and none after a later one.
C32_MetricsFramesInOrder ==
    \A c \in ClientIds :
        \A i, j \in 1..Len(hubClients[c].written) :
            (/\ i < j
             /\ hubClients[c].written[i].type = "metrics"
             /\ hubClients[c].written[j].type = "metrics")
            => hubClients[c].written[i].payload < hubClients[c].written[j].payload

\* C33: a client whose channel removeClient has closed is never touched
\* again (no broadcast sends on it, nothing is written to it); a broadcast
\* changes the buffers of registered clients only, appending its message;
\* and the registry holds exactly the clients added and not yet removed.
C33_NoSendAfterClose ==
    /\ [][\A c \in ClientIds :
            hubClients[c].pc = "closed" => hubClients'[c] = hubClients[c]]_vars
    /\ [][\A kind \in HubKinds : Broadcasts(kind) =>
            \A c \in ClientIds :
                \/ hubClients'[c] = hubClients[c]
                \/ /\ hubClients[c].pc \in {"registered", "streaming"}
                   /\ hubClients'[c] = [hubClients[c] EXCEPT
                          !.ch = Append(@, hubMessage(kind, hubPending[kind]))]]_vars
    /\ [](\A c \in ClientIds :
            /\ (c \in registered(hubClients)) = (hubClients[c].pc \notin {None, "closed"})
            /\ hubClients[c].pc = "closed" => hubClients[c].ch = <<>>)

\* One client has disconnected; the other holds in its buffer the last
\* message delivered, which was broadcast and never written to the first.
C33_Witness ==
    \E c, d \in ClientIds :
        /\ hubClients[c].pc = "closed"
        /\ hubClients[c].written # <<>>
        /\ hubClients[d].pc = "streaming"
        /\ \A kind \in HubKinds : hubPending[kind] = NoPayload
        /\ hubSerial > BacklogLen + 1
        /\ \E i \in 1..Len(hubClients[d].ch) : hubClients[d].ch[i].payload = hubSerial
        /\ \A i \in 1..Len(hubClients[c].written) :
              hubClients[c].written[i].payload < hubSerial

\* C34: an evaluation with ratio above 0.7 on a key whose latch is not set
\* sets the latch whether or not the incident could be published, and the
\* snapshot is acked (ProcessSnapshot returns nil); while a key's latch is
\* set no incident is emitted for it, and the latch is released only by an
\* evaluation with ratio below 0.3.  So an incident whose publication
\* failed is not emitted again on the following snapshots.
C34_LostIncidentNotReemitted ==
    [][detSamples' = detSamples + 1 =>
          /\ detResult' = "nil"
          /\ \A k \in Keys :
                /\ (/\ k \notin activeIncidents
                    /\ Len(windows'[k]) >= 3
                    /\ windows'[k] # windows[k]
                    /\ ratioAbove(windows'[k], DefaultRules[k[3]]))
                      => k \in activeIncidents'
                /\ k \in activeIncidents =>
                      /\ k \notin NewIncidents
                      /\ k \notin activeIncidents' =>
                            /\ Len(windows'[k]) >= 3
                            /\ 10 * breachCount(windows'[k], DefaultRules[k[3]])
                                  < 3 * Len(windows'[k])]_vars

\* Five samples in a row breached a rule: the incident raised at the third
\* could not be published, the latch is set, and nothing was emitted for the
\* key at the fourth and the fifth.
C34_Witness ==
    \E k \in Keys :
        /\ Len(windows[k]) = 5
        /\ \A i \in 1..5 : Evaluate(DefaultRules[k[3]], windows[k][i].value)
        /\ k \in activeIncidents
        /\ IncidentsOf(k) = {}
        /\ detResult = "nil"

(***************************************************************************)
(* Claims about the approval surface's failures.                           *)
(***************************************************************************)
\* C35: an ApproveAction call on an existing action whose PublishCommand
\* fails answers INTERNAL, leaves the action APPROVED, puts nothing on
\* ops.commands, and the action is not among the pending ones any more.
C35_PublishFailureKeepsApproved ==
    [][(/\ orchResp'.method = "ApproveAction"
        /\ orchResp'.fault = "publish"
        /\ orchResp'.id \in DOMAIN actionsRepo)
        => /\ orchResp'.code = "INTERNAL"
           /\ actionsRepo' = Approve(actionsRepo, orchResp'.id)
           /\ actionsRepo'[orchResp'.id].status = "APPROVED"
           /\ opsCommands' = opsCommands
           /\ orchResp'.id \notin ListPending(actionsRepo')]_vars

\* An action is APPROVED and no command was ever published for it: the one
\* ApproveAction call on it failed to publish.
C35_Witness ==
    /\ orchResp.method = "ApproveAction"
    /\ orchResp.fault = "publish"
    /\ orchResp.code = "INTERNAL"
    /\ orchResp.read = "PENDING"
    /\ orchResp.id \in DOMAIN actionsRepo
    /\ actionsRepo[orchResp.id].status = "APPROVED"
    /\ commandsFor(orchResp.id) = 0

\* C36: every action published on ops.actions has, when it is published, a
\* row in the actions repository with status PENDING, so an ApproveAction
\* call on the id of a published action never answers NOT_FOUND.
C36_PublishedActionIsStored ==
    /\ [][Len(opsActions') = Len(opsActions) + 1 =>
            LET id == opsActions'[Len(opsActions')].action.id
            IN  id \in DOMAIN actionsRepo' /\ actionsRepo'[id].status = "PENDING"]_vars
    /\ [](orchResp.method = "ApproveAction" /\ orchResp.code = "NOT_FOUND" =>
            \A i \in 1..Len(opsActions) : opsActions[i].action.id # orchResp.id)

(***************************************************************************)
(* Claims about incidents raised by nodes.                                 *)
(***************************************************************************)
NodeRuleNames == {"high_cpu_usage", "critical_cpu_usage", "high_memory_usage"}

\* C37: the incidents a node raises are those of high_cpu_usage,
\* critical_cpu_usage and high_memory_usage; the action the decider proposes
\* for one of them has the node id as its target; and an ApplyCommand of type
\* SCALE_UP or RESTART_SERVICE on a node id changes no service and no node
\* and returns an event whose type is empty.
C37_NodeTargetIsNoOp ==
    [][/\ \A i \in DOMAIN opsIncidents' :
             opsIncidents'[i].affected[1] \in NodeIds
                => opsIncidents'[i].rule \in NodeRuleNames
       /\ (Proposes /\ agentLast'.incident.affected[1] \in NodeIds)
             => /\ Len(opsActions') = Len(opsActions) + 1
                /\ opsActions'[Len(opsActions')].action.targetId
                      = agentLast'.incident.affected[1]
                /\ opsActions'[Len(opsActions')].action.actionType
                      = CASE agentLast'.incident.rule = "high_memory_usage"
                                -> "RESTART_SERVICE"
                          [] agentLast'.incident.rule = "critical_cpu_usage"
                                -> "SCALE_UP"
                          [] OTHER -> "REBALANCE_TRAFFIC"
       /\ (Applies /\ ctlResp'.target \in NodeIds
                   /\ ctlResp'.actionType \in {"SCALE_UP", "RESTART_SERVICE"})
             => /\ services' = services
                /\ nodes' = nodes
                /\ ctlResp'.eventType = ""
                /\ simEvents'.last.eventType = ""]_vars

\* A RESTART_SERVICE proposed for a node's high_memory_usage incident was
\* applied to the engine with the node id as its target.
C37_Witness ==
    /\ ctlResp.method = "ApplyCommand"
    /\ ctlResp.actionType = "RESTART_SERVICE"
    /\ ctlResp.target \in NodeIds
    /\ \E i \in DOMAIN opsActions :
          /\ opsActions[i].action.actionType = "RESTART_SERVICE"
          /\ opsActions[i].action.targetId = ctlResp.target
    /\ \E j \in DOMAIN opsIncidents :
          opsIncidents[j].rule = "high_memory_usage" /\ opsIncidents[j].affected = <<ctlResp.target>>

(***************************************************************************)
(* Claims about drained nodes.                                             *)
(***************************************************************************)
\* C38: a tick leaves every node HEALTHY or DEGRADED, whatever its status
\* was: a node DRAIN_NODE set OFFLINE is given a status computed from its
\* cpu and memory by the next tick, while its count of running services
\* stays what the drain made it.
C38_TickRecomputesStatus ==
    [][tickID' = tickID + 1
          => \A n \in NodeIds :
                /\ nodes'[n].status \in {"HEALTHY", "DEGRADED"}
                /\ nodes'[n].status = nodeStatus(nodes'[n].cpu, nodes'[n].mem)
                      \/ scenario = "high_load"
                /\ nodes'[n].running = nodes[n].running]_vars

\* A loaded node was drained and a tick followed: it runs no service and is
\* DEGRADED, not OFFLINE.
C38_Witness ==
    /\ simEvents.last.eventType = "node_drained"
    /\ runPc = "ticked"
    /\ \E n \in NodeIds :
          /\ simEvents.last.target = n
          /\ nodes[n].running = 0
          /\ nodes[n].status = "DEGRADED"

(***************************************************************************)
(* Claims about the cooldown's key.                                        *)
(***************************************************************************)
ErrorRuleNames == {"high_error_rate", "critical_error_rate"}

\* C39: the cooldown is kept per (rule name, target): an incident of an
\* error-rate rule is dropped exactly when an action for the same rule AND
\* the same target was recorded less than 30 s before; otherwise a
\* RESTART_SERVICE for its target is published, even when an action for the
\* other rule on that target was published inside the same 30 s.
C39_CooldownPerRuleAndTarget ==
    [][(Delivers /\ agentLast'.incident.rule \in ErrorRuleNames)
          => LET incident == agentLast'.incident
                 cooling == \E k \in DOMAIN recentActions :
                               /\ k = <<incident.rule, incident.affected[1]>>
                               /\ agentLast'.now - recentActions[k] < cooldownDuration
             IN  IF cooling
                 THEN opsActions' = opsActions
                 ELSE /\ Len(opsActions') = Len(opsActions) + 1
                      /\ opsActions'[Len(opsActions')].action.actionType = "RESTART_SERVICE"
                      /\ opsActions'[Len(opsActions')].action.targetId = incident.affected[1]
                      /\ opsActions'[Len(opsActions')].at = agentLast'.now]_vars

\* Two RESTART_SERVICE actions for one service were published less than a
\* cooldown apart, one for each error-rate rule.
C39_Witness ==
    \E sv \in ServiceIds :
       /\ \A rule \in ErrorRuleNames : <<rule, sv>> \in DOMAIN recentActions
       /\ \E i, j \in DOMAIN opsActions :
             /\ i < j
             /\ opsActions[i].action.targetId = sv
             /\ opsActions[j].action.targetId = sv
             /\ opsActions[i].action.actionType = "RESTART_SERVICE"
             /\ opsActions[j].action.actionType = "RESTART_SERVICE"
             /\ opsActions[i].action.incidentId # opsActions[j].action.incidentId
             /\ opsActions[j].at - opsActions[i].at < cooldownDuration

(***************************************************************************)
(* Claims about calls on unknown actions.                                  *)
(***************************************************************************)
\* C40: a RejectAction call on an id that has no row, whose repository call
\* does not fail, answers with success, creates no row and publishes
\* nothing; an ApproveAction call on such an id, whose read does not fail,
\* answers NOT_FOUND and changes nothing either.
C40_RejectUnknownSucceeds ==
    [][/\ (/\ orchResp'.method = "RejectAction"
           /\ orchResp'.id \notin DOMAIN actionsRepo
           /\ orchResp'.fault = "none")
             => /\ orchResp'.code = "OK"
                /\ actionsRepo' = actionsRepo
                /\ opsCommands' = opsCommands
                /\ opsActions' = opsActions
       /\ (/\ orchResp'.method = "ApproveAction"
           /\ orchResp'.id \notin DOMAIN actionsRepo
           /\ orchResp'.fault # "get")
             => /\ orchResp'.code = "NOT_FOUND"
                /\ actionsRepo' = actionsRepo
                /\ opsCommands' = opsCommands
                /\ opsActions' = opsActions]_vars

\* RejectAction answered with success for an id that has no row, while the
\* repository holds other actions.
C40_Witness ==
    /\ orchResp.method = "RejectAction"
    /\ orchResp.code = "OK"
    /\ orchResp.id \notin DOMAIN actionsRepo
    /\ DOMAIN actionsRepo # {}

====
